---------------------------- MODULE Spec2Model ----------------------------
(***************************************************************************)
(* A model of the whatsapp-auto bridge:                                    *)
(*   - WhatsAppManager (src/whatsapp-bot.js, second class): the session    *)
(*     status machine, the inbound pipeline and destroy();                 *)
(*   - GeminiAI (src/gemini.js, first class): the response cache around    *)
(*     the completion call and the fallback replies;                       *)
(*   - WhatsAppBot (src/whatsapp-bot.js, first class): the rate limiter,   *)
(*     the bounded history and the single-bot pipeline;                    *)
(*   - SessionManager (src/gemini.js, second class): the session registry. *)
(* Every await of the source is a suspension point: a handler is modelled  *)
(* as one action per run-to-completion segment between two awaits.         *)
(***************************************************************************)
EXTENDS Integers, Sequences, FiniteSets, TLC

(***************************************************************************)
(* Bounds of the model.                                                    *)
(***************************************************************************)
MaxMsgs == 2
MaxAppends == 12
MaxCalls == 2
MaxRegOps == 4
MaxBotMsgs == 3
MaxQr == 1
MaxTicks == 1
MaxDestroys == 2
MaxMsgsEach == 1
MaxManagers == 2
MaxEmits == 1
MaxBots == 2

(***************************************************************************)
(* Program constants.                                                      *)
(***************************************************************************)
maxHistoryLength == 10
maxMessagesPerMinute == 2
responseDelayMin == 1000
responseDelayMax == 3000
typingSpeed == 30
windowMs == 60000
stdTTL == 3600
contextLength == 6
maxAgeHours == 24

Contacts == {"c1", "c2"}
Texts == {"hi", "thanks"}
MgrTexts == {"hi"}
NoVal == "<undefined>"

(***************************************************************************)
(* Strings: the operations of the source on message texts.                 *)
(***************************************************************************)
includes(s, sub) ==
    \E i \in 1..(Len(s) - Len(sub) + 1) : SubSeq(s, i, i + Len(sub) - 1) = sub

LowerChar(c) ==
    CASE c = "A" -> "a"
      [] c = "B" -> "b"
      [] c = "C" -> "c"
      [] c = "D" -> "d"
      [] c = "E" -> "e"
      [] c = "F" -> "f"
      [] c = "G" -> "g"
      [] c = "H" -> "h"
      [] c = "I" -> "i"
      [] c = "J" -> "j"
      [] c = "K" -> "k"
      [] c = "L" -> "l"
      [] c = "M" -> "m"
      [] c = "N" -> "n"
      [] c = "O" -> "o"
      [] c = "P" -> "p"
      [] c = "Q" -> "q"
      [] c = "R" -> "r"
      [] c = "S" -> "s"
      [] c = "T" -> "t"
      [] c = "U" -> "u"
      [] c = "V" -> "v"
      [] c = "W" -> "w"
      [] c = "X" -> "x"
      [] c = "Y" -> "y"
      [] c = "Z" -> "z"
      [] OTHER -> c

RECURSIVE toLowerCase(_)
toLowerCase(s) ==
    IF Len(s) = 0 THEN ""
    ELSE LowerChar(SubSeq(s, 1, 1)) \o toLowerCase(SubSeq(s, 2, Len(s)))

charCodeAt(c) ==
    CASE c = "a" -> 97
      [] c = "b" -> 98
      [] c = "c" -> 99
      [] c = "d" -> 100
      [] c = "e" -> 101
      [] c = "f" -> 102
      [] c = "g" -> 103
      [] c = "h" -> 104
      [] c = "i" -> 105
      [] c = "j" -> 106
      [] c = "k" -> 107
      [] c = "l" -> 108
      [] c = "m" -> 109
      [] c = "n" -> 110
      [] c = "o" -> 111
      [] c = "p" -> 112
      [] c = "q" -> 113
      [] c = "r" -> 114
      [] c = "s" -> 115
      [] c = "t" -> 116
      [] c = "u" -> 117
      [] c = "v" -> 118
      [] c = "w" -> 119
      [] c = "x" -> 120
      [] c = "y" -> 121
      [] c = "z" -> 122
      [] c = "A" -> 65
      [] c = "B" -> 66
      [] c = "C" -> 67
      [] c = "D" -> 68
      [] c = "E" -> 69
      [] c = "F" -> 70
      [] c = "G" -> 71
      [] c = "H" -> 72
      [] c = "I" -> 73
      [] c = "J" -> 74
      [] c = "K" -> 75
      [] c = "L" -> 76
      [] c = "M" -> 77
      [] c = "N" -> 78
      [] c = "O" -> 79
      [] c = "P" -> 80
      [] c = "Q" -> 81
      [] c = "R" -> 82
      [] c = "S" -> 83
      [] c = "T" -> 84
      [] c = "U" -> 85
      [] c = "V" -> 86
      [] c = "W" -> 87
      [] c = "X" -> 88
      [] c = "Y" -> 89
      [] c = "Z" -> 90
      [] c = " " -> 32
      [] c = "?" -> 63
      [] c = "!" -> 33
      [] OTHER -> 63

(***************************************************************************)
(* 32-bit integer arithmetic of hashMessage.  The values stay within the   *)
(* signed 32-bit range at every intermediate step of the evaluation.       *)
(***************************************************************************)
Two31m1 == 2147483647
Two27 == 134217728
Two26 == 67108864

\* a + b wrapped to a signed 32-bit integer, for a, b in the signed range
WrapAdd(a, b) ==
    IF a >= 0 /\ b >= 0 /\ a > Two31m1 - b
        THEN ((a - Two31m1) - 1) + ((b - Two31m1) - 1)
    ELSE IF a < 0 /\ b < 0 /\ a < ((-Two31m1) - 1) - b
        THEN ((a + Two31m1) + 1) + ((b + Two31m1) + 1)
    ELSE a + b

\* a variant of WrapNeg that keeps the sign, which turns the subtraction of
\* hashMessage into an addition
WrapNegKeepsSign(a) == a

\* -a wrapped (the negation of -2^31 is itself)
WrapNeg(a) == IF a = (-Two31m1) - 1 THEN a ELSE -a

\* hash << 5
Shl5(h) ==
    LET u == h % Two27
    IN  IF u >= Two26 THEN (u - Two27) * 32 ELSE u * 32

\* the loop of hashMessage from index i on.  The assignment to hash is
\* strict: hash is a computed 32-bit integer when an iteration starts, which
\* the test of its range makes explicit.
RECURSIVE hashFold(_, _, _)
hashFold(message, i, hash) ==
    IF i > Len(message) \/ hash > Two31m1 \/ hash < (-Two31m1) - 1 THEN hash
    ELSE LET char == charCodeAt(SubSeq(message, i, i))
         IN  hashFold(message, i + 1,
                      WrapAdd(WrapAdd(Shl5(hash), WrapNeg(hash)), char))

hashMessage(message) == hashFold(message, 1, 0)


(***************************************************************************)
(* State.                                                                  *)
(***************************************************************************)
VARIABLES
    \* the clock read by Date.now(), in milliseconds
    now,
    \* WhatsAppManager
    status, isReady, client, messageStats, chatHistory,
    pipe,          \* the invocations of handleIncomingMessage, in arrival order
    qrPending,     \* qr handlers suspended at await qrcode.toDataURL
    link,          \* the transport's own connection phase
    destroyPc,     \* destroy(): where the running call is, and the calls so far
    api,           \* the last sendMessage call of the API caller
    \* GeminiAI
    cache, modelCalls, call,
    \* WhatsAppBot
    botIsReady, isInitialized, botClient, botDestroy,
    messageCount, botChatHistory, rateLimiter, botPipe,
    \* SessionManager
    activeSessions, sessionFile, regOps, sweep,
    \* how the last call of a SessionManager method that saves the registry
    \* ended, and whether its write reached the file
    outcome,
    \* the appends made to one contact's history
    appended,
    \* whether process.env.GEMINI_API_KEY is set
    GEMINI_API_KEY,
    \* the other WhatsAppManager of whatsappInstances: its id and its fields
    parked,
    \* what the last call for a conversation context returned
    context,
    \* the multi-session server: whatsappInstances, the WhatsAppManager
    \* objects it made, its sockets, and its DELETE /api/session request
    whatsappInstances, managers, sockets, deleteReq,
    \* the single-bot server: this.bot, the WhatsAppBot objects it made,
    \* this.activeSessions, its sockets, the timers its disconnect handler
    \* set, and its last manual send
    bot, bots, serverSessions, clients, graceTimers, manual

mgrVars == <<status, isReady, client, messageStats, chatHistory, pipe,
             qrPending, link, destroyPc, api>>
gemVars == <<cache, modelCalls, call>>
botLife == <<botIsReady, isInitialized, botClient, botDestroy>>
botVars == <<botLife, messageCount, botChatHistory, rateLimiter,
             botPipe>>
regVars == <<activeSessions, sessionFile, regOps, sweep, outcome>>
multiVars == <<whatsappInstances, managers, sockets, deleteReq>>
singleVars == <<bot, bots, serverSessions, clients, graceTimers, manual>>
srvVars == <<multiVars, singleVars>>
vars == <<now, mgrVars, gemVars, botVars, regVars, appended, GEMINI_API_KEY,
         parked, context, srvVars>>

(***************************************************************************)
(* GeminiAI: the response cache (NodeCache with stdTTL) and the replies.   *)
(***************************************************************************)
\* the message texts getFallbackResponse is called with
FallbackTexts ==
    {"hello there", "thanks a lot", "random statement", "thanks for this",
     "what thanks", "ok?", "THANK you", ""}

\* the message texts detectLanguage is called with
LanguageTexts ==
    {"kaise ho yaar", "How are you today", "I like cake", "hello", "what man"}

\* the cache keys of the texts
Keys == {hashMessage(t) : t \in Texts \cup FallbackTexts \cup LanguageTexts}

\* the texts generateContent yields after cleanResponse and addHumanVariations
GenTexts == {"ok", ""}

\* a key the cache holds no entry for
NoEntry == [v |-> NoVal, t |-> 0]

\* NodeCache: an entry is live until its expiry time t has passed
cacheLive(c, key, t) == c[key] # NoEntry /\ c[key].t >= t

\* a variant of cacheGet that gives the stored value whatever its age
cacheGetStale(c, key, t) == IF c[key] # NoEntry THEN c[key].v ELSE NoVal

\* a variant of cacheGet that never finds an entry
cacheGetNothing(c, key, t) == NoVal

\* cache.get(key): the stored value, or undefined
cacheGet(c, key, t) == IF cacheLive(c, key, t) THEN c[key].v ELSE NoVal

\* cache.get deletes the entry it finds expired
cacheAfterGet(c, key, t) ==
    IF c[key] # NoEntry /\ ~cacheLive(c, key, t)
        THEN [c EXCEPT ![key] = NoEntry]
    ELSE c

\* a variant of cacheSet that takes stdTTL for milliseconds
cacheSetMillis(c, key, value, t) ==
    [c EXCEPT ![key] = [v |-> value, t |-> t + stdTTL]]

\* cache.set(key, value): expires stdTTL seconds from now
cacheSet(c, key, value, t) ==
    [c EXCEPT ![key] = [v |-> value, t |-> t + stdTTL * 1000]]

\* if (cachedResponse): undefined and the empty string are both falsy
truthy(v) == v # NoVal /\ v # ""

personalGreetings(contactName) == {"yaar", "bro", "dude", contactName}

\* addPersonalTouch: every value Math.random() can produce
addPersonalTouch(response, contactName) ==
    {response} \cup
    (IF contactName # "Friend"
        THEN {g \o ", " \o response : g \in personalGreetings(contactName)}
        ELSE {})

fallbackResponses(responseType) ==
    CASE responseType = "greeting" ->
            {"Hey! Kya haal hai?", "Arre yaar, kaisa chal raha hai?",
             "Hello bro! Sab badiya?", "Hi! What's up?"}
      [] responseType = "question" ->
            {"Hmm, interesting question yaar!", "Good question! Let me think...",
             "Arre, ye toh sochna padega", "Wah bhai, deep question hai!"}
      [] responseType = "thanks" ->
            {"Arre yaar, mention not!", "Koi baat nahi bro!",
             "Happy to help!", "Always welcome dude!"}
      [] OTHER ->
            {"Haan bhai, main sun raha hun!", "Tell me more yaar!",
             "Interesting! Aur bata...", "I'm listening! Go on..."}

hindiWords ==
    {"hai", "hain", "kya", "kaise", "kahan", "kab", "kaun", "main", "mein",
     "tum", "aap", "yeh", "woh", "aur", "ki", "ke", "ka", "se", "mera", "tera",
     "uska", "bhai", "yaar", "dost"}

englishWords ==
    {"the", "and", "you", "are", "what", "how", "where", "when", "who", "this",
     "that", "with", "have", "will", "can", "should", "would"}

\* the alternatives of /\b(bro|yaar|...)\b/i
hinglishPatterns ==
    {"bro", "yaar", "bhai", "dude", "man", "kya", "hai", "hain", "tum", "main",
     "mein"}

\* \w of a regular expression, on a lowercased character
wordChar(c) ==
    c \in {"a", "b", "c", "d", "e", "f", "g", "h", "i", "j", "k", "l", "m",
           "n", "o", "p", "q", "r", "s", "t", "u", "v", "w", "x", "y", "z",
           "0", "1", "2", "3", "4", "5", "6", "7", "8", "9", "_"}

\* /\bword\b/i.test(message), given the lowercased message m: word occurs
\* with no word character on either side
testWord(m, word) ==
    \E i \in 1..(Len(m) - Len(word) + 1) :
        /\ SubSeq(m, i, i + Len(word) - 1) = word
        /\ i = 1 \/ ~wordChar(SubSeq(m, i - 1, i - 1))
        /\ i + Len(word) - 1 = Len(m)
            \/ ~wordChar(SubSeq(m, i + Len(word), i + Len(word)))

\* a variant of detectLanguage that asks for an English word first
detectLanguageEnglishFirst(message) ==
    LET lowerMessage == toLowerCase(message)
        hindiCount == Cardinality({w \in hindiWords : includes(lowerMessage, w)})
        englishCount == Cardinality({w \in englishWords : includes(lowerMessage, w)})
        hasHinglishPattern == \E w \in hinglishPatterns : testWord(lowerMessage, w)
    IN  IF englishCount > 0 THEN "english"
        ELSE IF hindiCount > englishCount \/ hasHinglishPattern THEN "hinglish"
        ELSE "hinglish"

\* GeminiAI.detectLanguage
detectLanguage(message) ==
    LET lowerMessage == toLowerCase(message)
        hindiCount == Cardinality({w \in hindiWords : includes(lowerMessage, w)})
        englishCount == Cardinality({w \in englishWords : includes(lowerMessage, w)})
        hasHinglishPattern == \E w \in hinglishPatterns : testWord(lowerMessage, w)
    IN  IF hindiCount > englishCount \/ hasHinglishPattern THEN "hinglish"
        ELSE IF englishCount > 0 THEN "english"
        ELSE "hinglish"

\* a variant of responseType that looks for thanks before questions
responseTypeThanksFirst(userMessage) ==
    LET message == toLowerCase(userMessage)
    IN  IF includes(message, "hello") \/ includes(message, "hi")
           \/ includes(message, "hey") \/ includes(message, "namaste")
            THEN "greeting"
        ELSE IF includes(message, "thanks") \/ includes(message, "thank")
           \/ includes(message, "shukriya") \/ includes(message, "dhanyawad")
            THEN "thanks"
        ELSE IF includes(message, "?") \/ includes(message, "how")
           \/ includes(message, "what") \/ includes(message, "kya")
           \/ includes(message, "kaise")
            THEN "question"
        ELSE "default"

responseType(userMessage) ==
    LET message == toLowerCase(userMessage)
    IN  IF includes(message, "hello") \/ includes(message, "hi")
           \/ includes(message, "hey") \/ includes(message, "namaste")
            THEN "greeting"
        ELSE IF includes(message, "?") \/ includes(message, "how")
           \/ includes(message, "what") \/ includes(message, "kya")
           \/ includes(message, "kaise")
            THEN "question"
        ELSE IF includes(message, "thanks") \/ includes(message, "thank")
           \/ includes(message, "shukriya") \/ includes(message, "dhanyawad")
            THEN "thanks"
        ELSE "default"

\* getFallbackResponse: every value Math.random() can select
getFallbackResponse(userMessage) == fallbackResponses(responseType(userMessage))

(***************************************************************************)
(* A JavaScript Map is a function on the set of its keys.                  *)
(***************************************************************************)
EmptyMap == <<>>

has(m, k) == k \in DOMAIN m

mapSet(m, k, v) == [x \in (DOMAIN m) \cup {k} |-> IF x = k THEN v ELSE m[x]]

mapDelete(m, k) == [x \in (DOMAIN m) \ {k} |-> m[x]]

(***************************************************************************)
(* The bounded per-contact history.                                        *)
(***************************************************************************)
\* getChatHistory: this.chatHistory.get(contactId) || []
getChatHistory(h, contactId) == IF has(h, contactId) THEN h[contactId] ELSE <<>>

\* a variant of updateChatHistory that pushes the entry twice
updateChatHistoryTwice(h, contactId, message, isBot) ==
    LET entry == [message |-> message, isBot |-> isBot]
        history == Append(Append(getChatHistory(h, contactId), entry), entry)
    IN  mapSet(h, contactId,
               IF Len(history) > 10 THEN Tail(history) ELSE history)

\* WhatsAppManager.updateChatHistory: push, then shift when longer than 10
updateChatHistory(h, contactId, message, isBot) ==
    LET history == Append(getChatHistory(h, contactId),
                          [message |-> message, isBot |-> isBot])
    IN  mapSet(h, contactId,
               IF Len(history) > 10 THEN Tail(history) ELSE history)

\* a variant of addToHistory that shifts one entry too early
addToHistoryShiftAtLimit(h, contactId, messageData) ==
    LET history == Append(getChatHistory(h, contactId), messageData)
    IN  mapSet(h, contactId,
               IF Len(history) >= maxHistoryLength THEN Tail(history) ELSE history)

\* WhatsAppBot.addToHistory: push, then shift when longer than maxHistoryLength
addToHistory(h, contactId, messageData) ==
    LET history == Append(getChatHistory(h, contactId), messageData)
    IN  mapSet(h, contactId,
               IF Len(history) > maxHistoryLength THEN Tail(history) ELSE history)

\* history.slice(-6)
slice6(history) ==
    IF Len(history) <= contextLength THEN history
    ELSE SubSeq(history, Len(history) - contextLength + 1, Len(history))

\* a lookup that makes the missing entry, as addToHistory does before its push
getConversationContextCreating(h, contactId) ==
    [history |-> slice6(getChatHistory(h, contactId)),
     chatHistory |-> IF has(h, contactId) THEN h ELSE mapSet(h, contactId, <<>>)]

\* WhatsAppBot.getConversationContext: what it returns, and the store after it
getConversationContext(h, contactId) ==
    [history |-> slice6(getChatHistory(h, contactId)),
     chatHistory |-> h]

\* GeminiAI.buildConversationContext: the string it returns, as the sequence
\* of its lines `${sender}: ${entry.message}\n`; '' has no line
buildConversationContext(history) ==
    IF Len(history) = 0 THEN <<>>
    ELSE LET recentHistory == slice6(history)
         IN  [i \in 1..Len(recentHistory) |->
                [sender |-> IF recentHistory[i].isBot THEN "You" ELSE "Friend",
                 message |-> recentHistory[i].message]]

(***************************************************************************)
(* WhatsAppManager.                                                        *)
(* The transport is an external collaborator.  It emits its connection     *)
(* events in the order of its own protocol (link), and 'message' once it   *)
(* is authenticated: its message hooks are installed before it emits       *)
(* 'ready'.                                                                *)
(***************************************************************************)
Pipes == 1..MaxMsgs

IdlePipe == [pc |-> "idle", from |-> NoVal, fromMe |-> FALSE, body |-> NoVal,
             name |-> NoVal, reply |-> NoVal, kind |-> "none", attempts |-> 0,
             sent |-> "none", requests |-> 0, delivered |-> 0]

InFlight(r) == r.pc \notin {"idle", "done", "ignored"}

\* the senders of 'message' events: contacts and the status broadcast address
Senders == Contacts \cup {"status@broadcast"}

\* a variant of the skip test that looks at the sender only
skipsBroadcastOnly(from, fromMe) == from = "status@broadcast"

\* if (message.fromMe || message.from === 'status@broadcast') return
skips(from, fromMe) == fromMe \/ from = "status@broadcast"

\* the handler returned: its locals are gone; what it did stays on record
\* (the contact, the kind of reply, the calls of client.sendMessage, what
\* the transport accepted, the calls of generateContent and the replies
\* delivered)
finished(r) == [r EXCEPT !.pc = "done", !.body = NoVal, !.name = NoVal,
                         !.reply = NoVal]

\* the slot of the next invocation of handleIncomingMessage
NextSlot == Cardinality({p \in Pipes : pipe[p].pc # "idle"}) + 1

\* contact.name || contact.pushname || message.from: a contact with a saved
\* name, or one known by its address only
contactNames(from) == IF from = "c1" THEN {"Ravi"} ELSE {from}

\* the catch block of handleIncomingMessage: errors++, then the fallback send,
\* whose own failure is swallowed by .catch(console.error)
catchAndFallback(r) ==
    IF isReady /\ client = "live"
        THEN [r EXCEPT !.pc = "fallbackSend", !.attempts = @ + 1]
        ELSE finished(r)

\* a variant of afterResponse that asks the model again after an empty answer
afterResponseRetrying(r, response, kind) ==
    IF response # ""
        THEN [r EXCEPT !.pc = "typing", !.reply = response, !.kind = kind]
        ELSE [r EXCEPT !.pc = "model", !.requests = @ + 1]

\* if (aiResponse) { await simulateTyping ... } else the handler returns
afterResponse(r, response, kind) ==
    IF response # ""
        THEN [r EXCEPT !.pc = "typing", !.reply = response, !.kind = kind]
        ELSE finished([r EXCEPT !.kind = kind])

\* client.on('message'): handleIncomingMessage up to await message.getContact()
MessageEvent(from, fromMe, body) ==
    /\ client = "live"
    /\ link \in {"authed", "up"}
    /\ NextSlot <= MaxMsgs
    /\ IF skips(from, fromMe)
         THEN /\ pipe' = [pipe EXCEPT ![NextSlot] =
                            [IdlePipe EXCEPT !.pc = "ignored", !.from = from,
                                             !.fromMe = fromMe]]
              /\ UNCHANGED messageStats
         ELSE /\ messageStats' = [messageStats EXCEPT !.received = @ + 1]
              /\ pipe' = [pipe EXCEPT ![NextSlot] =
                            [IdlePipe EXCEPT !.pc = "getContact", !.from = from,
                                             !.fromMe = fromMe, !.body = body]]
    /\ UNCHANGED <<status, isReady, client, chatHistory, qrPending, link, destroyPc,
                   api, now, gemVars, botVars, regVars, appended, GEMINI_API_KEY, srvVars, parked, context>>

\* the 'message' event of a session whose contacts write at a conversational
\* pace: the handlers of the earlier messages have returned
MessagePaced(from, fromMe, body) ==
    /\ \A p \in Pipes : ~InFlight(pipe[p])
    /\ MessageEvent(from, fromMe, body)

\* getContact resolved: updateChatHistory, then generateResponse up to its
\* first await (a cache hit runs on to simulateTyping)
ContactResolved(p, name) ==
    /\ pipe[p].pc = "getContact"
    /\ name \in contactNames(pipe[p].from)
    /\ chatHistory' = updateChatHistory(chatHistory, pipe[p].from,
                                        pipe[p].body, FALSE)
    /\ LET key == hashMessage(pipe[p].body)
           cachedResponse == cacheGet(cache, key, now)
           r == [pipe[p] EXCEPT !.name = name]
       IN  /\ cache' = cacheAfterGet(cache, key, now)
           /\ IF truthy(cachedResponse)
                THEN /\ \E response \in addPersonalTouch(cachedResponse, name) :
                            pipe' = [pipe EXCEPT ![p] =
                                        afterResponse(r, response, "cached")]
                     /\ UNCHANGED modelCalls
                ELSE /\ pipe' = [pipe EXCEPT ![p] =
                                    [r EXCEPT !.pc = "model", !.requests = @ + 1]]
                     /\ modelCalls' = modelCalls + 1
    /\ UNCHANGED <<status, isReady, client, messageStats, qrPending, link, destroyPc,
                   api, now, call, botVars, regVars, appended, GEMINI_API_KEY, srvVars, parked, context>>

\* getContact rejected: the catch block
ContactRejected(p) ==
    /\ pipe[p].pc = "getContact"
    /\ messageStats' = [messageStats EXCEPT !.errors = @ + 1]
    /\ pipe' = [pipe EXCEPT ![p] = catchAndFallback(pipe[p])]
    /\ UNCHANGED <<status, isReady, client, chatHistory, qrPending, link, destroyPc,
                   api, now, gemVars, botVars, regVars, appended, GEMINI_API_KEY, srvVars, parked, context>>

\* generateContent resolved: clean, vary, cache.set, return the text
ModelResolved(p, generatedText) ==
    /\ pipe[p].pc = "model"
    /\ generatedText \in GenTexts
    /\ cache' = cacheSet(cache, hashMessage(pipe[p].body), generatedText, now)
    /\ pipe' = [pipe EXCEPT ![p] = afterResponse(pipe[p], generatedText, "ai")]
    /\ UNCHANGED <<status, isReady, client, messageStats, chatHistory, qrPending, link,
                   destroyPc, api, now, modelCalls, call, botVars, regVars,
                   appended, GEMINI_API_KEY, srvVars, parked, context>>

\* generateContent rejected: generateResponse returns getFallbackResponse
ModelRejected(p) ==
    /\ pipe[p].pc = "model"
    /\ \E response \in getFallbackResponse(pipe[p].body) :
            pipe' = [pipe EXCEPT ![p] = afterResponse(pipe[p], response, "fallback")]
    /\ UNCHANGED <<status, isReady, client, messageStats, chatHistory, qrPending, link,
                   destroyPc, api, now, gemVars, botVars, regVars, appended, GEMINI_API_KEY, srvVars, parked, context>>

\* simulateTyping returned (it swallows its own errors): sendMessage up to
\* await client.sendMessage, or its 'not ready' error and the catch block
TypingDone(p) ==
    /\ pipe[p].pc = "typing"
    /\ IF isReady /\ client = "live"
         THEN /\ pipe' = [pipe EXCEPT ![p] =
                            [@ EXCEPT !.pc = "send", !.attempts = @ + 1]]
              /\ UNCHANGED messageStats
         ELSE /\ messageStats' = [messageStats EXCEPT !.errors = @ + 1]
              /\ pipe' = [pipe EXCEPT ![p] = catchAndFallback(pipe[p])]
    /\ UNCHANGED <<status, isReady, client, chatHistory, qrPending, link, destroyPc,
                   api, now, gemVars, botVars, regVars, appended, GEMINI_API_KEY, srvVars, parked, context>>

\* client.sendMessage resolved: the reply goes into the history
SendOk(p) ==
    /\ pipe[p].pc = "send"
    /\ chatHistory' = updateChatHistory(chatHistory, pipe[p].from,
                                        pipe[p].reply, TRUE)
    /\ pipe' = [pipe EXCEPT ![p] =
                    finished([@ EXCEPT !.sent = "reply", !.delivered = @ + 1])]
    /\ UNCHANGED <<status, isReady, client, messageStats, qrPending, link, destroyPc,
                   api, now, gemVars, botVars, regVars, appended, GEMINI_API_KEY, srvVars, parked, context>>

\* client.sendMessage rejected: the catch block
SendFail(p) ==
    /\ pipe[p].pc = "send"
    /\ messageStats' = [messageStats EXCEPT !.errors = @ + 1]
    /\ pipe' = [pipe EXCEPT ![p] = catchAndFallback(pipe[p])]
    /\ UNCHANGED <<status, isReady, client, chatHistory, qrPending, link, destroyPc,
                   api, now, gemVars, botVars, regVars, appended, GEMINI_API_KEY, srvVars, parked, context>>

\* the fallback send of the catch block resolved
FallbackSendOk(p) ==
    /\ pipe[p].pc = "fallbackSend"
    /\ pipe' = [pipe EXCEPT ![p] =
                    finished([@ EXCEPT !.sent = "fallbackMessage",
                                       !.delivered = @ + 1])]
    /\ UNCHANGED <<status, isReady, client, messageStats, chatHistory, qrPending, link,
                   destroyPc, api, now, gemVars, botVars, regVars, appended, GEMINI_API_KEY, srvVars, parked, context>>

\* the fallback send rejected: .catch(console.error)
FallbackSendFail(p) ==
    /\ pipe[p].pc = "fallbackSend"
    /\ pipe' = [pipe EXCEPT ![p] = finished(@)]
    /\ UNCHANGED <<status, isReady, client, messageStats, chatHistory, qrPending, link,
                   destroyPc, api, now, gemVars, botVars, regVars, appended, GEMINI_API_KEY, srvVars, parked, context>>


\* client.on('qr'): the handler up to await qrcode.toDataURL(qr)
Qr ==
    /\ client = "live"
    /\ link \in {"starting", "pairing"}
    /\ qrPending < MaxQr
    /\ link' = "pairing"
    /\ qrPending' = qrPending + 1
    /\ UNCHANGED <<status, isReady, client, messageStats, chatHistory, pipe,
                   destroyPc, api, now, gemVars, botVars, regVars, appended, GEMINI_API_KEY, srvVars, parked, context>>

\* toDataURL resolved: this.status = 'qr_generated'
QrDone ==
    /\ qrPending > 0
    /\ qrPending' = qrPending - 1
    /\ status' = "qr_generated"
    /\ UNCHANGED <<isReady, client, messageStats, chatHistory, pipe, link,
                   destroyPc, api, now, gemVars, botVars, regVars, appended, GEMINI_API_KEY, srvVars, parked, context>>

\* toDataURL rejected: emitError only
QrFail ==
    /\ qrPending > 0
    /\ qrPending' = qrPending - 1
    /\ UNCHANGED <<status, isReady, client, messageStats, chatHistory, pipe,
                   link, destroyPc, api, now, gemVars, botVars, regVars,
                   appended, GEMINI_API_KEY, srvVars, parked, context>>

\* client.on('authenticated')
Authenticated ==
    /\ client = "live"
    /\ link \in {"starting", "pairing"}
    /\ link' = "authed"
    /\ status' = "authenticated"
    /\ UNCHANGED <<isReady, client, messageStats, chatHistory, pipe, qrPending,
                   destroyPc, api, now, gemVars, botVars, regVars, appended, GEMINI_API_KEY, srvVars, parked, context>>

\* client.on('auth_failure')
AuthFailure ==
    /\ client = "live"
    /\ link \in {"starting", "pairing", "authed", "up"}
    /\ link' = "failed"
    /\ status' = "auth_failed"
    /\ UNCHANGED <<isReady, client, messageStats, chatHistory, pipe, qrPending,
                   destroyPc, api, now, gemVars, botVars, regVars, appended, GEMINI_API_KEY, srvVars, parked, context>>

\* client.on('ready')
Ready ==
    /\ client = "live"
    /\ link = "authed"
    /\ link' = "up"
    /\ isReady' = TRUE
    /\ status' = "ready"
    /\ UNCHANGED <<client, messageStats, chatHistory, pipe, qrPending,
                   destroyPc, api, now, gemVars, botVars, regVars, appended, GEMINI_API_KEY, srvVars, parked, context>>

\* client.on('disconnected')
Disconnected ==
    /\ client = "live"
    /\ link = "up"
    /\ link' = "down"
    /\ isReady' = FALSE
    /\ status' = "disconnected"
    /\ UNCHANGED <<client, messageStats, chatHistory, pipe, qrPending,
                   destroyPc, api, now, gemVars, botVars, regVars, appended, GEMINI_API_KEY, srvVars, parked, context>>

\* a variant of the assignments of destroy() that keeps the status
destroyedKeepsStatus ==
    /\ isReady' = FALSE
    /\ status' = status
    /\ chatHistory' = EmptyMap

\* the assignments of destroy() after the client is gone
destroyed ==
    /\ isReady' = FALSE
    /\ status' = "destroyed"
    /\ chatHistory' = EmptyMap

\* destroy(): up to await this.client.destroy(); with no client it runs through
\* and returns
DestroyBegin ==
    /\ destroyPc.at = "idle"
    /\ destroyPc.calls < MaxDestroys
    /\ IF client = "live"
         THEN /\ destroyPc' = [destroyPc EXCEPT !.at = "awaiting", !.calls = @ + 1]
              /\ UNCHANGED <<status, isReady, chatHistory>>
         ELSE /\ destroyed
              /\ destroyPc' = [destroyPc EXCEPT !.calls = @ + 1,
                                                !.returned = @ + 1]
    /\ UNCHANGED <<client, messageStats, pipe, qrPending, link, api, now,
                   gemVars, botVars, regVars, appended, GEMINI_API_KEY, srvVars, parked, context>>

\* client.destroy() resolved
DestroyEnd ==
    /\ destroyPc.at = "awaiting"
    /\ destroyPc' = [destroyPc EXCEPT !.at = "idle", !.returned = @ + 1]
    /\ client' = "null"
    /\ destroyed
    /\ UNCHANGED <<messageStats, pipe, qrPending, link, api, now, gemVars,
                   botVars, regVars, appended, GEMINI_API_KEY, srvVars, parked, context>>

\* client.destroy() rejected: destroy() logs and rethrows
DestroyFail ==
    /\ destroyPc.at = "awaiting"
    /\ destroyPc' = [destroyPc EXCEPT !.at = "idle", !.threw = @ + 1]
    /\ UNCHANGED <<status, isReady, client, messageStats, chatHistory, pipe,
                   qrPending, link, api, now, gemVars, botVars, regVars,
                   appended, GEMINI_API_KEY, srvVars, parked, context>>

\* a variant of the check that lets every call through
notReadyUnchecked(ready) == FALSE

\* if (!this.isReady)
notReady(ready) == ~ready

\* sendMessage and sendMediaMessage up to await this.client.sendMessage:
\* 'WhatsApp client not ready' is thrown at once, and so is the TypeError of
\* a call on a client that is null; the catch block rethrows what it caught
sendBegins(ready, cl, awaiting) ==
    IF notReady(ready) THEN "threw WhatsApp client not ready"
    ELSE IF cl # "live" THEN "threw"
    ELSE awaiting

\* sendMessage(to, message) called by the API
ApiSend ==
    /\ api \notin {"awaiting", "awaiting media"}
    /\ api' = sendBegins(isReady, client, "awaiting")
    /\ UNCHANGED <<status, isReady, client, messageStats, chatHistory, pipe,
                   qrPending, link, destroyPc, now, gemVars, botVars, regVars,
                   appended, GEMINI_API_KEY, srvVars, parked, context>>

\* client.sendMessage of the API call resolved (returns true) or rejected
\* (the error is rethrown to the caller)
ApiSendSettled(ok) ==
    /\ api \in {"awaiting", "awaiting media"}
    /\ api' = IF ok THEN "returned" ELSE "threw"
    /\ UNCHANGED <<status, isReady, client, messageStats, chatHistory, pipe,
                   qrPending, link, destroyPc, now, gemVars, botVars, regVars,
                   appended, GEMINI_API_KEY, srvVars, parked, context>>

\* sendMediaMessage(to, media, caption) called on the session
ApiSendMedia ==
    /\ api \notin {"awaiting", "awaiting media"}
    /\ api' = sendBegins(isReady, client, "awaiting media")
    /\ UNCHANGED <<status, isReady, client, messageStats, chatHistory, pipe,
                   qrPending, link, destroyPc, now, gemVars, botVars, regVars,
                   appended, GEMINI_API_KEY, srvVars, parked, context>>

(***************************************************************************)
(* GeminiAI.generateResponse called directly, one record per call.         *)
(***************************************************************************)
Calls == 1..MaxCalls

\* contactName as callers pass it; 'Friend' is the default
CallerNames == {"Friend", "Ravi"}

\* the message texts callers pass
CallerTexts == {"hi"}

\* chatHistory as callers pass it; [] is the default
CallerHistories == {<<>>, <<"hi">>}

\* the callers of generateResponse: the default caller, one with a contact
\* name, one with a chat history
Callers == {c \in [contactName : CallerNames, chatHistory : CallerHistories] :
                c.contactName = "Friend" \/ c.chatHistory = <<>>}

\* prior: the call whose cache.set was the latest for the text when this call
\* began (0: none); wrote, writtenAt: the order and the time of this call's
\* cache.set, if any
IdleCall == [pc |-> "idle", text |-> NoVal, name |-> NoVal,
             chatHistory |-> <<>>, startedAt |-> 0,
             prior |-> 0, invoked |-> FALSE, detectedLanguage |-> NoVal,
             cacheKey |-> 0,
             result |-> NoVal, wrote |-> 0, writtenAt |-> 0]

NextCall == Cardinality({k \in Calls : call[k].pc # "idle"}) + 1

\* the cache writes made so far
cacheWrites == Cardinality({k \in Calls : call[k].wrote > 0})

\* the calls that have cached a reply for a text
writers(userMessage) ==
    {k \in Calls : call[k].wrote > 0 /\ call[k].text = userMessage}

\* the call whose cache.set for the text was the latest, 0 if there is none
latestWriter(userMessage) ==
    IF writers(userMessage) = {} THEN 0
    ELSE CHOOSE k \in writers(userMessage) :
            \A j \in writers(userMessage) : call[j].wrote <= call[k].wrote

\* generateResponse up to its return on a cache hit, or up to
\* await this.model.generateContent(prompt) on a miss
GenerateResponse(userMessage, contactName, history) ==
    /\ NextCall <= MaxCalls
    /\ LET cacheKey == hashMessage(userMessage)
           cachedResponse == cacheGet(cache, cacheKey, now)
           r == [IdleCall EXCEPT !.text = userMessage, !.name = contactName,
                                 !.chatHistory = history,
                                 !.cacheKey = cacheKey, !.startedAt = now,
                                 !.prior = latestWriter(userMessage)]
       IN  /\ cache' = cacheAfterGet(cache, cacheKey, now)
           /\ IF truthy(cachedResponse)
                THEN /\ \E response \in addPersonalTouch(cachedResponse, contactName) :
                            call' = [call EXCEPT ![NextCall] =
                                        [r EXCEPT !.pc = "done", !.result = response]]
                     /\ UNCHANGED modelCalls
                ELSE /\ call' = [call EXCEPT ![NextCall] =
                                    [r EXCEPT !.pc = "model", !.invoked = TRUE,
                                              !.detectedLanguage =
                                                    detectLanguage(userMessage)]]
                     /\ modelCalls' = modelCalls + 1
    /\ UNCHANGED <<now, mgrVars, botVars, regVars, appended, GEMINI_API_KEY, srvVars, parked, context>>

\* generateContent resolved: the cleaned text is cached and returned
GenerateContentResolved(k, generatedText) ==
    /\ call[k].pc = "model"
    /\ generatedText \in GenTexts
    /\ cache' = cacheSet(cache, hashMessage(call[k].text), generatedText, now)
    /\ call' = [call EXCEPT ![k] =
                    [@ EXCEPT !.pc = "done", !.result = generatedText,
                              !.wrote = cacheWrites + 1, !.writtenAt = now]]
    /\ UNCHANGED <<now, modelCalls, mgrVars, botVars, regVars, appended, GEMINI_API_KEY, srvVars, parked, context>>

\* a variant of the catch block that caches the fallback reply it returns
catchCachingFallback(c, key, response, t) == cacheSet(c, key, response, t)

\* the cache after the catch block of generateResponse, which logs the error
\* and returns the fallback reply
catchBlock(c, key, response, t) == c

\* generateContent rejected: the catch block returns a fallback reply
GenerateContentRejected(k) ==
    /\ call[k].pc = "model"
    /\ \E response \in getFallbackResponse(call[k].text) :
            /\ call' = [call EXCEPT ![k] =
                        [@ EXCEPT !.pc = "done", !.result = response]]
            /\ cache' = catchBlock(cache, hashMessage(call[k].text), response, now)
    /\ UNCHANGED <<now, modelCalls, mgrVars, botVars, regVars, appended, GEMINI_API_KEY, srvVars, parked, context>>

\* time passes: half the cache TTL, or more than the cache TTL
TtlElapses(d) ==
    /\ d \in {stdTTL * 500, stdTTL * 1000 + 1}
    /\ now + d <= MaxTicks * (stdTTL * 1000 + 1)
    /\ now' = now + d
    /\ UNCHANGED <<mgrVars, gemVars, botVars, regVars, appended, GEMINI_API_KEY, srvVars, parked, context>>

(***************************************************************************)
(* WhatsAppBot: the single bot of the single-bot server.                   *)
(***************************************************************************)
BotPipes == 1..MaxBotMsgs

\* the contacts that write to the single bot
BotContacts == {"c1"}

IdleBotPipe == [pc |-> "idle", from |-> NoVal, fromMe |-> FALSE, body |-> NoVal,
                name |-> NoVal, reply |-> NoVal, requests |-> 0,
                delivered |-> 0, typingDelay |-> 0]

\* the senders of the bot's 'message' events
BotSenders == BotContacts \cup {"status@broadcast"}

\* if (message.from === 'status@broadcast') return; if (message.fromMe) return
botSkips(from, fromMe) == from = "status@broadcast" \/ fromMe

BotNextSlot == Cardinality({p \in BotPipes : botPipe[p].pc # "idle"}) + 1

\* the handler returned: its locals are gone; the replies delivered stay on
\* record
botFinished(r) == [IdleBotPipe EXCEPT !.pc = "done", !.delivered = r.delivered]

\* the texts generateContent yields after cleanAIResponse
BotGenTexts == {"ok", ""}

\* contact.pushname || contact.name || message.from
botContactNames(from) == IF from = "c1" THEN {"Ravi"} ELSE {from}

\* WhatsAppBot.getFallbackResponse: every value Math.random() can select
botFallbacks ==
    {"Sorry yaar, thoda issue ho gaya. Kya keh rahe the tum?",
     "Oops! Kuch technical problem hai. Dobara try karo",
     "Hmm, samajh nahi aaya. Thoda aur detail mein batao?",
     "Sorry bro, connection issue. Kya bol rahe the?",
     "Arre yaar, kuch gadbad hai. Phir se message karo"}

RECURSIVE filterWindow(_, _)
\* requests.filter(time => now - time < windowMs)
filterWindow(requests, t) ==
    IF requests = <<>> THEN <<>>
    ELSE IF t - Head(requests) < windowMs
        THEN <<Head(requests)>> \o filterWindow(Tail(requests), t)
        ELSE filterWindow(Tail(requests), t)

\* the requests checkRateLimit leaves stored for the contact
validRequests(rl, contactId, t) ==
    filterWindow(IF has(rl, contactId) THEN rl[contactId] ELSE <<>>, t)

\* checkRateLimit: the stored window after the call
rateLimiterAfterCheck(rl, contactId, t) ==
    mapSet(rl, contactId, validRequests(rl, contactId, t))

\* a variant of checkRateLimit that admits one request more
checkRateLimitInclusive(rl, contactId, t) ==
    Len(validRequests(rl, contactId, t)) <= maxMessagesPerMinute

\* checkRateLimit: the value returned
checkRateLimit(rl, contactId, t) ==
    Len(validRequests(rl, contactId, t)) < maxMessagesPerMinute

\* updateRateLimit: push now
updateRateLimit(rl, contactId, t) ==
    mapSet(rl, contactId,
           Append(IF has(rl, contactId) THEN rl[contactId] ELSE <<>>, t))

\* a variant of cleanupRateLimiter that keeps a request for one millisecond
\* longer
cleanupRateLimiterInclusive(rl, t) ==
    LET kept(c) == SelectSeq(rl[c], LAMBDA time : t - time <= windowMs)
    IN  [c \in {d \in DOMAIN rl : kept(d) # <<>>} |-> kept(c)]

\* cleanupRateLimiter: a contact whose filtered window is empty is deleted,
\* any other contact keeps its filtered window
cleanupRateLimiter(rl, t) ==
    LET filtered(c) == filterWindow(rl[c], t)
    IN  [c \in {d \in DOMAIN rl : filtered(d) # <<>>} |-> filtered(c)]

\* the catch block of generateAndSendResponse up to await message.reply(fallback)
botCatch(r, fallbackResponse) ==
    [r EXCEPT !.pc = "fallbackReply", !.reply = fallbackResponse]

\* client.on('message'): handleIncomingMessage up to await message.getContact()
BotMessageEvent(from, fromMe, body) ==
    /\ botClient = "live"
    /\ BotNextSlot <= MaxBotMsgs
    /\ botPipe' = [botPipe EXCEPT ![BotNextSlot] =
                    IF botSkips(from, fromMe)
                        THEN [IdleBotPipe EXCEPT !.pc = "ignored", !.from = from,
                                                 !.fromMe = fromMe]
                        ELSE [IdleBotPipe EXCEPT !.pc = "getContact",
                                                 !.from = from, !.fromMe = fromMe,
                                                 !.body = body]]
    /\ UNCHANGED <<botLife, messageCount, botChatHistory,
                   rateLimiter, now, mgrVars, gemVars, regVars, appended, GEMINI_API_KEY, srvVars, parked, context>>

\* the 'message' event of a contact who writes at a conversational pace: the
\* handlers of the earlier messages have returned
BotMessagePaced(from, fromMe, body) ==
    /\ \A p \in BotPipes : botPipe[p].pc \in {"idle", "done", "ignored"}
    /\ BotMessageEvent(from, fromMe, body)

\* getContact resolved: messageCount++, the rate limit gate, the inbound entry,
\* then generateAndSendResponse up to await client.sendPresenceAvailable()
BotContactResolved(p, name) ==
    /\ botPipe[p].pc = "getContact"
    /\ name \in botContactNames(botPipe[p].from)
    /\ messageCount' = messageCount + 1
    /\ rateLimiter' = rateLimiterAfterCheck(rateLimiter, botPipe[p].from, now)
    /\ IF ~checkRateLimit(rateLimiter, botPipe[p].from, now)
         THEN /\ botPipe' = [botPipe EXCEPT ![p] =
                                botFinished(@)]
              /\ UNCHANGED botChatHistory
         ELSE /\ botChatHistory' =
                    addToHistory(botChatHistory, botPipe[p].from,
                                 [type |-> "received", message |-> botPipe[p].body,
                                  timestamp |-> now, who |-> name])
              /\ LET r == [botPipe[p] EXCEPT !.name = name]
                 IN  IF botClient = "live"
                        THEN botPipe' = [botPipe EXCEPT ![p] =
                                            [r EXCEPT !.pc = "presence"]]
                        ELSE \E f \in botFallbacks :
                                botPipe' = [botPipe EXCEPT ![p] = botCatch(r, f)]
    /\ UNCHANGED <<botLife, now, mgrVars, gemVars, regVars,
                   appended, GEMINI_API_KEY, srvVars, parked, context>>

\* getContact rejected: the catch block of handleIncomingMessage logs
BotContactRejected(p) ==
    /\ botPipe[p].pc = "getContact"
    /\ botPipe' = [botPipe EXCEPT ![p] = botFinished(@)]
    /\ UNCHANGED <<botLife, messageCount, botChatHistory,
                   rateLimiter, now, mgrVars, gemVars, regVars, appended, GEMINI_API_KEY, srvVars, parked, context>>

\* sendPresenceAvailable and sendStateTyping resolved: getAIResponse up to
\* await this.model.generateContent(prompt)
BotPresenceDone(p) ==
    /\ botPipe[p].pc = "presence"
    /\ botPipe' = [botPipe EXCEPT ![p] =
                    [@ EXCEPT !.pc = "model",
                              !.requests = IF GEMINI_API_KEY THEN @ + 1 ELSE @]]
    /\ UNCHANGED <<botLife, messageCount, botChatHistory,
                   rateLimiter, now, mgrVars, gemVars, regVars, appended, GEMINI_API_KEY, srvVars, parked, context>>

\* sendPresenceAvailable or sendStateTyping rejected: the catch block
BotPresenceFailed(p) ==
    /\ botPipe[p].pc = "presence"
    /\ \E f \in botFallbacks :
            botPipe' = [botPipe EXCEPT ![p] = botCatch(@, f)]
    /\ UNCHANGED <<botLife, messageCount, botChatHistory,
                   rateLimiter, now, mgrVars, gemVars, regVars, appended, GEMINI_API_KEY, srvVars, parked, context>>

\* the values of Math.random() the model draws, in halves: 0 and 1/2
MathRandomHalves == {0, 1}

\* Math.min(a, b)
MathMin(a, b) == IF a < b THEN a ELSE b

\* calculateTypingDelay with Math.random() = halves / 2:
\* Math.floor(baseDelay + Math.random() * (calculatedDelay - baseDelay))
calculateTypingDelay(message, halves) ==
    LET baseDelay == responseDelayMin
        maxDelay == responseDelayMax
        calculatedDelay == MathMin(Len(message) * typingSpeed, maxDelay)
    IN  baseDelay + ((halves * (calculatedDelay - baseDelay)) \div 2)

\* generateContent resolved: an empty reply makes generateAndSendResponse
\* return; otherwise up to await this.sleep(typingDelay)
BotModelResolved(p, aiResponse) ==
    /\ botPipe[p].pc = "model"
    /\ GEMINI_API_KEY
    /\ aiResponse \in BotGenTexts
    /\ \E halves \in MathRandomHalves :
        botPipe' = [botPipe EXCEPT ![p] =
                    IF aiResponse = ""
                        THEN botFinished(@)
                        ELSE [@ EXCEPT !.pc = "sleep", !.reply = aiResponse,
                                       !.typingDelay =
                                            calculateTypingDelay(aiResponse, halves)]]
    /\ UNCHANGED <<botLife, messageCount, botChatHistory,
                   rateLimiter, now, mgrVars, gemVars, regVars, appended, GEMINI_API_KEY, srvVars, parked, context>>

\* generateContent rejected, or this.model was never set ('AI model not
\* initialized'): getAIResponse returns null and
\* generateAndSendResponse returns ('No AI response generated')
BotModelRejected(p) ==
    /\ botPipe[p].pc = "model"
    /\ botPipe' = [botPipe EXCEPT ![p] = botFinished(@)]
    /\ UNCHANGED <<botLife, messageCount, botChatHistory,
                   rateLimiter, now, mgrVars, gemVars, regVars, appended, GEMINI_API_KEY, srvVars, parked, context>>

\* the typing delay elapsed: up to await chat.clearState()
BotSleepDone(p) ==
    /\ botPipe[p].pc = "sleep"
    /\ botPipe' = [botPipe EXCEPT ![p] = [@ EXCEPT !.pc = "clear",
                                                   !.typingDelay = 0]]
    /\ UNCHANGED <<botLife, messageCount, botChatHistory,
                   rateLimiter, now, mgrVars, gemVars, regVars, appended, GEMINI_API_KEY, srvVars, parked, context>>

\* clearState resolved: up to await message.reply(aiResponse)
BotClearDone(p) ==
    /\ botPipe[p].pc = "clear"
    /\ botPipe' = [botPipe EXCEPT ![p] =
                    [@ EXCEPT !.pc = "reply"]]
    /\ UNCHANGED <<botLife, messageCount, botChatHistory,
                   rateLimiter, now, mgrVars, gemVars, regVars, appended, GEMINI_API_KEY, srvVars, parked, context>>

\* clearState rejected: the catch block
BotClearFailed(p) ==
    /\ botPipe[p].pc = "clear"
    /\ \E f \in botFallbacks :
            botPipe' = [botPipe EXCEPT ![p] = botCatch(@, f)]
    /\ UNCHANGED <<botLife, messageCount, botChatHistory,
                   rateLimiter, now, mgrVars, gemVars, regVars, appended, GEMINI_API_KEY, srvVars, parked, context>>

\* message.reply resolved: the outbound entry, then updateRateLimit
BotReplyOk(p) ==
    /\ botPipe[p].pc = "reply"
    /\ botChatHistory' =
            addToHistory(botChatHistory, botPipe[p].from,
                         [type |-> "sent", message |-> botPipe[p].reply,
                          timestamp |-> now, who |-> botPipe[p].name])
    /\ rateLimiter' = updateRateLimit(rateLimiter, botPipe[p].from, now)
    /\ botPipe' = [botPipe EXCEPT ![p] =
                    botFinished([@ EXCEPT !.delivered = @ + 1])]
    /\ UNCHANGED <<botLife, messageCount, now, mgrVars, gemVars,
                   regVars, appended, GEMINI_API_KEY, srvVars, parked, context>>

\* message.reply rejected: the catch block
BotReplyFail(p) ==
    /\ botPipe[p].pc = "reply"
    /\ \E f \in botFallbacks :
            botPipe' = [botPipe EXCEPT ![p] = botCatch(@, f)]
    /\ UNCHANGED <<botLife, messageCount, botChatHistory,
                   rateLimiter, now, mgrVars, gemVars, regVars, appended, GEMINI_API_KEY, srvVars, parked, context>>

\* the fallback reply resolved: it goes into the history
BotFallbackOk(p) ==
    /\ botPipe[p].pc = "fallbackReply"
    /\ botChatHistory' =
            addToHistory(botChatHistory, botPipe[p].from,
                         [type |-> "sent", message |-> botPipe[p].reply,
                          timestamp |-> now, who |-> botPipe[p].name])
    /\ botPipe' = [botPipe EXCEPT ![p] =
                    botFinished([@ EXCEPT !.delivered = @ + 1])]
    /\ UNCHANGED <<botLife, messageCount, rateLimiter, now,
                   mgrVars, gemVars, regVars, appended, GEMINI_API_KEY, srvVars, parked, context>>

\* the fallback reply rejected: logged
BotFallbackFail(p) ==
    /\ botPipe[p].pc = "fallbackReply"
    /\ botPipe' = [botPipe EXCEPT ![p] = botFinished(@)]
    /\ UNCHANGED <<botLife, messageCount, botChatHistory,
                   rateLimiter, now, mgrVars, gemVars, regVars, appended, GEMINI_API_KEY, srvVars, parked, context>>

\* time passes: half a rate limit window, or a whole one
BotTick(d) ==
    /\ d \in {windowMs \div 2, windowMs}
    /\ now + d <= MaxTicks * windowMs
    /\ now' = now + d
    /\ UNCHANGED <<mgrVars, gemVars, botVars, regVars, appended, GEMINI_API_KEY, srvVars, parked, context>>

\* cron.schedule('0 * * * *'): this.cleanupRateLimiter()
CleanupRateLimiter ==
    /\ rateLimiter' = cleanupRateLimiter(rateLimiter, now)
    /\ UNCHANGED <<botLife, messageCount, botChatHistory, botPipe, now, mgrVars,
                   gemVars, regVars, appended, GEMINI_API_KEY, srvVars, parked, context>>

\* await this.client.initialize() resolved: this.isInitialized = true
BotInitialized ==
    /\ ~isInitialized
    /\ botClient = "live"
    /\ isInitialized' = TRUE
    /\ UNCHANGED <<botIsReady, botClient, botDestroy, messageCount,
                   botChatHistory, rateLimiter, botPipe, now, mgrVars, gemVars,
                   regVars, appended, GEMINI_API_KEY, srvVars, parked, context>>

\* client.on('ready'): this.isReady = true
BotReady ==
    /\ botClient = "live"
    /\ ~botIsReady
    /\ botIsReady' = TRUE
    /\ UNCHANGED <<isInitialized, botClient, botDestroy, messageCount,
                   botChatHistory, rateLimiter, botPipe, now, mgrVars, gemVars,
                   regVars, appended, GEMINI_API_KEY, srvVars, parked, context>>

\* a variant of saveThrows without the try/catch around the write
saveThrowsOnFailure(written) == ~written

\* saveActiveSessions and saveChatHistory: whether the call rejects.  The
\* whole body is in a try block whose catch logs the error.
saveThrows(written) == FALSE

\* WhatsAppBot.destroy(): up to await this.saveChatHistory()
BotDestroyBegin ==
    /\ botDestroy.at = "idle"
    /\ botDestroy.calls < MaxDestroys
    /\ botDestroy' = [botDestroy EXCEPT !.at = "saving", !.calls = @ + 1]
    /\ UNCHANGED <<botIsReady, isInitialized, botClient, messageCount,
                   botChatHistory, rateLimiter, botPipe, now, mgrVars, gemVars,
                   regVars, appended, GEMINI_API_KEY, srvVars, parked, context>>

\* saveChatHistory settled, its write done or failed: up to
\* await this.client.destroy(); with no client destroy() runs through.  Had
\* saveChatHistory rejected, the catch block of destroy() would end the call.
BotDestroySaved ==
    /\ botDestroy.at = "saving"
    /\ \E written \in BOOLEAN :
        IF saveThrows(written)
          THEN /\ botDestroy' = [botDestroy EXCEPT !.at = "idle"]
               /\ UNCHANGED <<botIsReady, isInitialized>>
        ELSE IF botClient = "live"
          THEN /\ botDestroy' = [botDestroy EXCEPT !.at = "awaiting"]
               /\ UNCHANGED <<botIsReady, isInitialized>>
          ELSE /\ botIsReady' = FALSE
               /\ isInitialized' = FALSE
               /\ botDestroy' = [botDestroy EXCEPT !.at = "idle",
                                                   !.completed = @ + 1]
    /\ UNCHANGED <<botClient, messageCount, botChatHistory, rateLimiter,
                   botPipe, now, mgrVars, gemVars, regVars, appended, GEMINI_API_KEY, srvVars, parked, context>>

\* client.destroy() resolved: the client and both flags are reset
BotDestroyEnd ==
    /\ botDestroy.at = "awaiting"
    /\ botClient' = "null"
    /\ botIsReady' = FALSE
    /\ isInitialized' = FALSE
    /\ botDestroy' = [botDestroy EXCEPT !.at = "idle", !.completed = @ + 1]
    /\ UNCHANGED <<messageCount, botChatHistory, rateLimiter, botPipe, now,
                   mgrVars, gemVars, regVars, appended, GEMINI_API_KEY, srvVars, parked, context>>

\* client.destroy() rejected: destroy() logs the error and returns
BotDestroyFail ==
    /\ botDestroy.at = "awaiting"
    /\ botDestroy' = [botDestroy EXCEPT !.at = "idle"]
    /\ UNCHANGED <<botIsReady, isInitialized, botClient, messageCount,
                   botChatHistory, rateLimiter, botPipe, now, mgrVars, gemVars,
                   regVars, appended, GEMINI_API_KEY, srvVars, parked, context>>

(***************************************************************************)
(* SessionManager: the registry of sessions and its file.                  *)
(***************************************************************************)
\* the values crypto.randomBytes(8).toString('hex') is drawn from
RandomBytes == {"a1", "b2"}

\* the statuses callers pass to updateSessionStatus
CallerStatuses == {"ready", "disconnected"}

\* `wa_${timestamp}_${randomBytes}`
sessionIdOf(timestamp, randomBytes) == <<"wa", timestamp, randomBytes>>

\* an id no generateSessionId call returned
UnknownId == <<"wa", -1, "zz">>

\* saveActiveSessions: the file after the call; a failed write is logged and
\* leaves the file as it was
saveActiveSessions(sessions, file, written) ==
    IF written THEN sessions ELSE file

\* generateSessionId: a new record in status 'created'; an id that is already
\* a key replaces the record stored under it
generateSessionIdCall(randomBytes, written) ==
    /\ regOps < MaxRegOps
    /\ LET sessionId == sessionIdOf(now, randomBytes)
           sessionInfo == [status |-> "created", messageCount |-> 0,
                           isActive |-> TRUE, createdAt |-> now,
                           lastActivity |-> now]
       IN  /\ activeSessions' = mapSet(activeSessions, sessionId, sessionInfo)
           /\ sessionFile' = saveActiveSessions(activeSessions', sessionFile, written)
    \* this.saveActiveSessions() is not awaited: the id is returned whatever
    \* becomes of the write
    /\ outcome' = [written |-> written, ended |-> "returned"]
    /\ regOps' = regOps + 1
    /\ UNCHANGED sweep

\* generateSessionId called on its own
generateSessionId(randomBytes, written) ==
    /\ generateSessionIdCall(randomBytes, written)
    /\ UNCHANGED <<now, mgrVars, gemVars, botVars, appended, GEMINI_API_KEY, srvVars, parked, context>>

\* createSession: throws for an unknown id, else sets status 'initializing'
createSession(sessionId, written) ==
    /\ regOps < MaxRegOps
    /\ IF ~has(activeSessions, sessionId)
         THEN /\ UNCHANGED <<activeSessions, sessionFile>>
              /\ outcome' = [written |-> written, ended |-> "threw not found"]
         ELSE /\ activeSessions' =
                    [activeSessions EXCEPT ![sessionId] =
                        [@ EXCEPT !.status = "initializing", !.lastActivity = now]]
              /\ sessionFile' = saveActiveSessions(activeSessions', sessionFile, written)
              \* the catch block rethrows what the try block threw
              /\ outcome' = [written |-> written,
                             ended |-> IF saveThrows(written)
                                         THEN "threw write error" ELSE "returned"]
    /\ regOps' = regOps + 1
    /\ UNCHANGED <<sweep, now, mgrVars, gemVars, botVars, appended, GEMINI_API_KEY, srvVars, parked, context>>

\* updateSessionStatus: warns for an unknown id, else stores the status given
updateSessionStatus(sessionId, newStatus, written) ==
    /\ regOps < MaxRegOps
    /\ IF ~has(activeSessions, sessionId)
         THEN UNCHANGED <<activeSessions, sessionFile>>
         ELSE /\ activeSessions' =
                    [activeSessions EXCEPT ![sessionId] =
                        [@ EXCEPT !.status = newStatus, !.lastActivity = now]]
              /\ sessionFile' = saveActiveSessions(activeSessions', sessionFile, written)
    \* the catch block logs what the try block threw
    /\ outcome' = [written |-> written, ended |-> "returned"]
    /\ regOps' = regOps + 1
    /\ UNCHANGED <<sweep, now, mgrVars, gemVars, botVars, appended, GEMINI_API_KEY, srvVars, parked, context>>

\* incrementMessageCount: nothing for an unknown id
incrementMessageCount(sessionId, written) ==
    /\ regOps < MaxRegOps
    /\ IF ~has(activeSessions, sessionId)
         THEN UNCHANGED <<activeSessions, sessionFile>>
         ELSE /\ activeSessions' =
                    [activeSessions EXCEPT ![sessionId] =
                        [@ EXCEPT !.messageCount = @ + 1, !.lastActivity = now]]
              /\ sessionFile' = saveActiveSessions(activeSessions', sessionFile, written)
    \* the catch block logs what the try block threw
    /\ outcome' = [written |-> written, ended |-> "returned"]
    /\ regOps' = regOps + 1
    /\ UNCHANGED <<sweep, now, mgrVars, gemVars, botVars, appended, GEMINI_API_KEY, srvVars, parked, context>>

\* removeSession: the record stays, inactive and 'destroyed'
removeSession(sessionId, written) ==
    /\ regOps < MaxRegOps
    /\ IF ~has(activeSessions, sessionId)
         THEN UNCHANGED <<activeSessions, sessionFile>>
         ELSE /\ activeSessions' =
                    [activeSessions EXCEPT ![sessionId] =
                        [@ EXCEPT !.isActive = FALSE, !.status = "destroyed",
                                  !.lastActivity = now]]
              /\ sessionFile' = saveActiveSessions(activeSessions', sessionFile, written)
    \* the catch block logs what the try block threw
    /\ outcome' = [written |-> written, ended |-> "returned"]
    /\ regOps' = regOps + 1
    /\ UNCHANGED <<sweep, now, mgrVars, gemVars, botVars, appended, GEMINI_API_KEY, srvVars, parked, context>>

\* the records cleanupOldSessions deletes
oldSessions(sessions, t) ==
    {id \in DOMAIN sessions :
        /\ sessions[id].lastActivity < t - maxAgeHours * 60 * 60 * 1000
        /\ ~sessions[id].isActive}

\* no sweep is running
IdleSweep == [at |-> "idle", startedAt |-> 0, visited |-> {}, cleanedCount |-> 0]

\* the loop of cleanupOldSessions from the records not yet visited up to its
\* next await. The Map iterates in insertion order, which for these keys is
\* the order of their timestamps; keys made in the same millisecond come in
\* either order. The test and the delete of one record are one synchronous
\* step; the loop then waits for fs.rmdir, or ends and saves when it deleted
\* any record.
sweepLoop(startedAt, visited, cleanedCount, written) ==
    LET remaining == DOMAIN activeSessions \ visited
        old == oldSessions(activeSessions, startedAt) \cap remaining
    IN  IF old = {}
          THEN /\ activeSessions' = activeSessions
               /\ sessionFile' =
                    IF cleanedCount > 0
                        THEN saveActiveSessions(activeSessions, sessionFile, written)
                        ELSE sessionFile
               /\ sweep' = IdleSweep
          ELSE \E sessionId \in old :
                /\ \A e \in old : sessionId[2] <= e[2]
                /\ \E S \in SUBSET {e \in remaining \ old : e[2] = sessionId[2]} :
                    sweep' = [at |-> "rmdir", startedAt |-> startedAt,
                              visited |-> visited \cup S \cup {sessionId}
                                    \cup {e \in remaining : e[2] < sessionId[2]},
                              cleanedCount |-> cleanedCount + 1]
                /\ activeSessions' =
                    [id \in DOMAIN activeSessions \ {sessionId}
                        |-> activeSessions[id]]
                /\ sessionFile' = sessionFile

\* cleanupOldSessions is called: the cutoff is fixed and the loop runs to its
\* first await (one sweep at a time)
cleanupOldSessions(written) ==
    /\ regOps < MaxRegOps
    /\ sweep.at = "idle"
    /\ sweepLoop(now, {}, 0, written)
    /\ regOps' = regOps + 1
    /\ UNCHANGED <<outcome, now, mgrVars, gemVars, botVars, appended, GEMINI_API_KEY, srvVars, parked, context>>

\* fs.rmdir settles (a rejection is caught and logged): the loop goes on
RmdirSettled(written) ==
    /\ sweep.at = "rmdir"
    /\ sweepLoop(sweep.startedAt, sweep.visited, sweep.cleanedCount, written)
    /\ UNCHANGED <<regOps, outcome, now, mgrVars, gemVars, botVars, appended, GEMINI_API_KEY, srvVars, parked, context>>

\* loadActiveSessions in a restarted process: the new registry holds the
\* records of the file, each with the status it was saved with (the dates go
\* through toISOString and new Date, which keep the millisecond); an unreadable
\* file leaves the registry empty. No session object exists in the new
\* process and no sweep is running.
loadActiveSessions(readable) ==
    /\ regOps < MaxRegOps
    /\ link = "starting" /\ \A p \in Pipes : pipe[p].pc = "idle"
    /\ \A p \in BotPipes : botPipe[p].pc = "idle"
    /\ activeSessions' = IF readable THEN sessionFile ELSE EmptyMap
    /\ sweep' = IdleSweep
    /\ regOps' = regOps + 1
    /\ UNCHANGED <<sessionFile, outcome, now, mgrVars, gemVars, botVars, appended, GEMINI_API_KEY, srvVars, parked, context>>

\* time passes: half the cleanup age, or more than the cleanup age
RegTick(d) ==
    /\ d \in {maxAgeHours * 30 * 60 * 1000, maxAgeHours * 60 * 60 * 1000 + 1}
    /\ now + d <= MaxTicks * (maxAgeHours * 60 * 60 * 1000 + 1)
    /\ now' = now + d
    /\ UNCHANGED <<mgrVars, gemVars, botVars, regVars, appended, GEMINI_API_KEY, srvVars, parked, context>>

(***************************************************************************)
(* The two history stores under a long conversation with one contact.      *)
(* The n-th message appended carries the number n as its text, so that the *)
(* order of the stored entries is visible.                                 *)
(***************************************************************************)
\* handleIncomingMessage / its reply: updateChatHistory(message.from, ..)
HistUpdateChatHistory(isBot) ==
    /\ Len(appended.mgr) < MaxAppends
    /\ LET message == Len(appended.mgr) + 1
       IN  /\ chatHistory' = updateChatHistory(chatHistory, "c1", message, isBot)
           /\ appended' = [appended EXCEPT !.mgr =
                            Append(@, [message |-> message, isBot |-> isBot])]
    /\ UNCHANGED <<status, isReady, client, messageStats, pipe, qrPending, link,
                   destroyPc, api, now, gemVars, botVars, regVars,
                   GEMINI_API_KEY, srvVars, parked, context>>

\* handleIncomingMessage / generateAndSendResponse: addToHistory(contactId, ..)
HistAddToHistory ==
    /\ Len(appended.bot) < MaxAppends
    /\ LET messageData == [type |-> "received", message |-> Len(appended.bot) + 1,
                           timestamp |-> now, who |-> "Ravi"]
       IN  /\ botChatHistory' = addToHistory(botChatHistory, "c1", messageData)
           /\ appended' = [appended EXCEPT !.bot = Append(@, messageData)]
    /\ UNCHANGED <<botLife, messageCount, rateLimiter, botPipe,
                   now, mgrVars, gemVars, regVars, GEMINI_API_KEY, srvVars, parked, context>>

\* no context was asked for yet
NoContext == [by |-> NoVal, contactId |-> NoVal, value |-> <<>>]

\* generateAndSendResponse: const history = this.getConversationContext(contactId)
GetConversationContext(contactId) ==
    /\ context' = [by |-> "getConversationContext", contactId |-> contactId,
                   value |-> getConversationContext(botChatHistory, contactId).history]
    /\ botChatHistory' = getConversationContext(botChatHistory, contactId).chatHistory
    /\ UNCHANGED <<botLife, messageCount, rateLimiter, botPipe,
                   now, mgrVars, gemVars, regVars, appended, GEMINI_API_KEY, srvVars, parked>>

\* generateAIResponse: getChatHistory(contactId) handed to generateResponse,
\* which calls buildConversationContext(chatHistory)
BuildConversationContext(contactId) ==
    /\ context' = [by |-> "buildConversationContext", contactId |-> contactId,
                   value |-> buildConversationContext(
                                getChatHistory(chatHistory, contactId))]
    /\ UNCHANGED <<now, mgrVars, gemVars, botVars, regVars, appended,
                   GEMINI_API_KEY, srvVars, parked>>

(***************************************************************************)
(* Two sessions of the multi-session server. whatsappInstances holds one   *)
(* WhatsAppManager per session id; the variables of the WhatsAppManager    *)
(* above are the fields of the session in hand, `parked` holds the fields  *)
(* of the other one, and Switch turns to the other session.                *)
(***************************************************************************)
SessionIds == {"A", "B"}

\* new WhatsAppManager(sessionId, io) followed by initialize(): every field
\* is made by the constructor, the GeminiAI and its NodeCache included
NewInstance(sessionId) ==
    [sessionId |-> sessionId,
     status |-> "initializing", isReady |-> FALSE, client |-> "live",
     messageStats |-> [received |-> 0, sent |-> 0, errors |-> 0],
     chatHistory |-> EmptyMap, pipe |-> [p \in Pipes |-> IdlePipe],
     qrPending |-> 0, link |-> "starting",
     destroyPc |-> [at |-> "idle", calls |-> 0, returned |-> 0, threw |-> 0],
     api |-> "idle", cache |-> [k \in Keys |-> NoEntry], modelCalls |-> 0]

\* the id of the session in hand
current == CHOOSE s \in SessionIds : s # parked.sessionId

\* the fields of the session in hand
instance ==
    [sessionId |-> current,
     status |-> status, isReady |-> isReady, client |-> client,
     messageStats |-> messageStats, chatHistory |-> chatHistory, pipe |-> pipe,
     qrPending |-> qrPending, link |-> link, destroyPc |-> destroyPc,
     api |-> api, cache |-> cache, modelCalls |-> modelCalls]

\* a cache held by the module, one for all sessions
moduleCache(own, shared) == shared

\* the cache a session's GeminiAI reads and writes: this.cache, made by its
\* own constructor
cacheOf(own, shared) == own

\* the fields of session s
instanceOf(s) ==
    IF s = current THEN instance
    ELSE [parked EXCEPT !.cache = cacheOf(parked.cache, cache)]

\* the events of the other session come next
Switch ==
    /\ parked' = instance
    /\ status' = parked.status
    /\ isReady' = parked.isReady
    /\ client' = parked.client
    /\ messageStats' = parked.messageStats
    /\ chatHistory' = parked.chatHistory
    /\ pipe' = parked.pipe
    /\ qrPending' = parked.qrPending
    /\ link' = parked.link
    /\ destroyPc' = parked.destroyPc
    /\ api' = parked.api
    /\ cache' = cacheOf(parked.cache, cache)
    /\ modelCalls' = parked.modelCalls
    /\ UNCHANGED <<now, call, botVars, regVars, appended, GEMINI_API_KEY, srvVars,
                   context>>

(***************************************************************************)
(* The multi-session server: whatsappInstances, the sockets of its         *)
(* clients, and the WhatsAppManager objects its handlers make.  A manager  *)
(* is known here by the order of its construction; of its life the server  *)
(* sees initialize() and destroy() settle and the events it hands to       *)
(* emitToSocket.                                                           *)
(***************************************************************************)
Managers == 1..MaxManagers

Sockets == {"s1", "s2"}

\* a WhatsAppManager not yet constructed
NoManager == [sessionId |-> NoVal, socket |-> NoVal, init |-> "none",
              destroy |-> "none", emitted |-> 0]

\* a socket before its 'connection' event: got[m] counts the events of
\* manager m the socket has received, stopping is the manager whose destroy()
\* its stop_session handler awaits
NoSocket == [connected |-> FALSE, sessionId |-> NoVal,
             got |-> [m \in Managers |-> 0], stopping |-> 0]

NoDelete == [pc |-> "idle", sessionId |-> NoVal, instance |-> 0]

InitMultiServer ==
    /\ whatsappInstances = EmptyMap
    /\ managers = [m \in Managers |-> NoManager]
    /\ sockets = [k \in Sockets |-> NoSocket]
    /\ deleteReq = NoDelete

\* everything but the multi-session server and the session registry
asideServer == <<now, mgrVars, gemVars, botVars, appended, GEMINI_API_KEY,
                 parked, context, singleVars>>

NextManager == Cardinality({m \in Managers : managers[m].init # "none"}) + 1

\* a variant of emitToSocket that emits to the session's own socket only
emitToOwnSocket(socks, m) ==
    [k \in Sockets |->
        [socks[k] EXCEPT !.got[m] =
            @ + (IF managers[m].socket = k THEN 1 ELSE 0)]]

\* emitToSocket: this.socket.emit(event, data) if the manager has a socket,
\* then this.io.emit(event, data), which reaches every connected socket
emitToSocket(socks, m) ==
    [k \in Sockets |->
        [socks[k] EXCEPT !.got[m] =
            @ + (IF managers[m].socket = k THEN 1 ELSE 0)
              + (IF socks[k].connected THEN 1 ELSE 0)]]

\* io.on('connection')
Connection(k) ==
    /\ ~sockets[k].connected
    /\ sockets' = [sockets EXCEPT ![k].connected = TRUE]
    /\ UNCHANGED <<whatsappInstances, managers, deleteReq, regVars, asideServer>>

\* socket.on('start_session') up to await whatsappManager.initialize()
SocketStartSession(k, randomBytes, written) ==
    /\ sockets[k].connected
    /\ NextManager <= MaxManagers
    /\ generateSessionIdCall(randomBytes, written)
    /\ LET sessionId == sessionIdOf(now, randomBytes)
       IN  /\ managers' = [managers EXCEPT ![NextManager] =
                    [NoManager EXCEPT !.sessionId = sessionId, !.socket = k,
                                      !.init = "pending"]]
           /\ whatsappInstances' = mapSet(whatsappInstances, sessionId, NextManager)
           /\ sockets' = [sockets EXCEPT ![k].sessionId = sessionId]
    /\ UNCHANGED <<deleteReq, asideServer>>

\* POST /api/create-session up to await whatsappManager.initialize()
CreateSession(randomBytes, written) ==
    /\ NextManager <= MaxManagers
    /\ generateSessionIdCall(randomBytes, written)
    /\ LET sessionId == sessionIdOf(now, randomBytes)
       IN  /\ managers' = [managers EXCEPT ![NextManager] =
                    [NoManager EXCEPT !.sessionId = sessionId,
                                      !.init = "pending"]]
           /\ whatsappInstances' = mapSet(whatsappInstances, sessionId, NextManager)
    /\ UNCHANGED <<sockets, deleteReq, asideServer>>

\* client.initialize() resolved: initialize() returns and the handler ends
\* (create-session answers success)
InitializeResolved(m) ==
    /\ managers[m].init = "pending"
    /\ managers' = [managers EXCEPT ![m].init = "resolved"]
    /\ UNCHANGED <<whatsappInstances, sockets, deleteReq, regVars, asideServer>>

\* client.initialize() rejected: initialize() logs, calls emitError and
\* rethrows; the handler's catch block logs and reports
InitializeRejected(m) ==
    /\ managers[m].init = "pending"
    /\ managers' = [managers EXCEPT ![m].init = "threw", ![m].emitted = @ + 1]
    /\ sockets' = emitToSocket(sockets, m)
    /\ UNCHANGED <<whatsappInstances, deleteReq, regVars, asideServer>>

\* a listener of the manager's client calls emitToSocket: qr, authenticated,
\* ready, disconnected, message_received, message_sent
ManagerEmits(m) ==
    /\ managers[m].init \in {"pending", "resolved"}
    /\ managers[m].destroy # "done"
    /\ managers[m].emitted < MaxEmits
    /\ managers' = [managers EXCEPT ![m].emitted = @ + 1]
    /\ sockets' = emitToSocket(sockets, m)
    /\ UNCHANGED <<whatsappInstances, deleteReq, regVars, asideServer>>

\* socket.on('stop_session') up to await instance.destroy(), or to its end
\* when the socket has no session or the map has no instance for it
StopSession(k) ==
    /\ sockets[k].connected
    /\ sockets[k].stopping = 0
    /\ sockets[k].sessionId # NoVal
    /\ IF has(whatsappInstances, sockets[k].sessionId)
         THEN LET m == whatsappInstances[sockets[k].sessionId]
              IN  /\ managers[m].destroy # "pending"
                  /\ sockets' = [sockets EXCEPT ![k].stopping = m]
                  /\ managers' = [managers EXCEPT ![m].destroy = "pending"]
         ELSE /\ sockets' = [sockets EXCEPT ![k].sessionId = NoVal]
              /\ UNCHANGED managers
    /\ UNCHANGED <<whatsappInstances, deleteReq, regVars, asideServer>>

\* instance.destroy() resolved in stop_session:
\* whatsappInstances.delete(socket.sessionId); socket.sessionId = null
StopSessionDestroyed(k) ==
    /\ sockets[k].stopping # 0
    /\ managers' = [managers EXCEPT ![sockets[k].stopping].destroy = "done"]
    /\ whatsappInstances' =
            IF has(whatsappInstances, sockets[k].sessionId)
                THEN mapDelete(whatsappInstances, sockets[k].sessionId)
            ELSE whatsappInstances
    /\ sockets' = [sockets EXCEPT ![k].stopping = 0, ![k].sessionId = NoVal]
    /\ UNCHANGED <<deleteReq, regVars, asideServer>>

\* instance.destroy() threw in stop_session: the catch block logs and
\* emits 'error' to the socket
StopSessionFailed(k) ==
    /\ sockets[k].stopping # 0
    /\ managers' = [managers EXCEPT ![sockets[k].stopping].destroy = "threw"]
    /\ sockets' = [sockets EXCEPT ![k].stopping = 0]
    /\ UNCHANGED <<whatsappInstances, deleteReq, regVars, asideServer>>

\* DELETE /api/session/:sessionId up to await instance.destroy(); a session
\* the map does not hold is answered 404
DeleteSession(sessionId) ==
    /\ deleteReq.pc = "idle"
    /\ has(whatsappInstances, sessionId)
    /\ managers[whatsappInstances[sessionId]].destroy # "pending"
    /\ deleteReq' = [pc |-> "destroy", sessionId |-> sessionId,
                     instance |-> whatsappInstances[sessionId]]
    /\ managers' = [managers EXCEPT ![whatsappInstances[sessionId]].destroy = "pending"]
    /\ UNCHANGED <<whatsappInstances, sockets, regVars, asideServer>>

\* instance.destroy() resolved in DELETE: whatsappInstances.delete(sessionId)
DeleteSessionDestroyed ==
    /\ deleteReq.pc = "destroy"
    /\ managers' = [managers EXCEPT ![deleteReq.instance].destroy = "done"]
    /\ whatsappInstances' =
            IF has(whatsappInstances, deleteReq.sessionId)
                THEN mapDelete(whatsappInstances, deleteReq.sessionId)
            ELSE whatsappInstances
    /\ deleteReq' = NoDelete
    /\ UNCHANGED <<sockets, regVars, asideServer>>

\* instance.destroy() threw in DELETE: answered 500
DeleteSessionFailed ==
    /\ deleteReq.pc = "destroy"
    /\ managers' = [managers EXCEPT ![deleteReq.instance].destroy = "threw"]
    /\ deleteReq' = NoDelete
    /\ UNCHANGED <<whatsappInstances, sockets, regVars, asideServer>>

(***************************************************************************)
(* The single-bot server (WhatsAppBotServer): this.bot, this.activeSessions *)
(* and the sockets of its clients.  A WhatsAppBot is known here by the      *)
(* order of its construction; of its life the server sees initialize()      *)
(* settle, the 'ready' and 'disconnected' events, and destroy().            *)
(***************************************************************************)
BotIds == 1..MaxBots

\* a WhatsAppBot not yet constructed; the constructor sets isReady = false
\* and isInitialized = false
NoBot == [socket |-> NoVal, init |-> "none", isReady |-> FALSE,
          isInitialized |-> FALSE, destroy |-> "none"]

\* a socket before its 'connection' event; starting is the bot whose
\* initialize() its start-session handler awaits
NoClient == [connected |-> "no", starting |-> 0]

NoManual == [path |-> "none", connected |-> FALSE, sendMessage |-> FALSE,
             reply |-> "none"]

InitBotServer ==
    /\ bot = 0
    /\ bots = [b \in BotIds |-> NoBot]
    /\ serverSessions = EmptyMap
    /\ clients = [k \in Sockets |-> NoClient]
    /\ graceTimers = 0
    /\ manual = NoManual

\* everything but the single-bot server
asideBotServer == <<now, mgrVars, gemVars, botVars, regVars, appended,
                    GEMINI_API_KEY, parked, context, multiVars>>

NewBotId == Cardinality({b \in BotIds : bots[b].init # "none"}) + 1

\* this.bot.destroy() as the server calls it, without awaiting it
destroyCalled(bs, b) == [bs EXCEPT ![b].destroy = "called"]

\* this.bot.isReady as a property lookup: the field the constructor assigned
\* hides the method of the same name
isReadyProperty(b) == bots[b].isReady

\* what calling a value yields: a function returns, a boolean is not callable
callIsReady(b) ==
    IF isReadyProperty(b) \in BOOLEAN
        THEN [threw |-> TRUE, value |-> "this.bot.isReady is not a function"]
    ELSE [threw |-> FALSE, value |-> bots[b].isReady]

\* io.on('connection')
BotConnection(k) ==
    /\ clients[k].connected = "no"
    /\ clients' = [clients EXCEPT ![k].connected = "yes"]
    /\ UNCHANGED <<bot, bots, serverSessions, graceTimers, manual, asideBotServer>>

\* socket.on('start-session') up to await this.bot.initialize() when there
\* is no bot, or to its end when there is one
BotStartSession(k) ==
    /\ clients[k].connected = "yes"
    /\ clients[k].starting = 0
    /\ IF bot = 0
         THEN /\ NewBotId <= MaxBots
              /\ bot' = NewBotId
              /\ bots' = [bots EXCEPT ![NewBotId] =
                            [NoBot EXCEPT !.socket = k, !.init = "pending"]]
              /\ clients' = [clients EXCEPT ![k].starting = NewBotId]
              /\ UNCHANGED serverSessions
         ELSE /\ bots' = [bots EXCEPT ![bot].socket = k]
              /\ serverSessions' = mapSet(serverSessions, k, bot)
              /\ UNCHANGED <<bot, clients>>
    /\ UNCHANGED <<graceTimers, manual, asideBotServer>>

\* client.initialize() resolved: isInitialized = true, and the handler goes
\* on to this.activeSessions.set(socket.id, { startTime, bot: this.bot })
BotInitializeResolved(k) ==
    /\ clients[k].starting # 0
    /\ bots' = [bots EXCEPT ![clients[k].starting].init = "resolved",
                            ![clients[k].starting].isInitialized = TRUE]
    /\ serverSessions' = mapSet(serverSessions, k, bot)
    /\ clients' = [clients EXCEPT ![k].starting = 0]
    /\ UNCHANGED <<bot, graceTimers, manual, asideBotServer>>

\* client.initialize() rejected: initialize() emits 'error' and rethrows,
\* the handler's catch block emits 'error'
BotInitializeRejected(k) ==
    /\ clients[k].starting # 0
    /\ bots' = [bots EXCEPT ![clients[k].starting].init = "threw"]
    /\ clients' = [clients EXCEPT ![k].starting = 0]
    /\ UNCHANGED <<bot, serverSessions, graceTimers, manual, asideBotServer>>

\* client.on('ready') of bot b
BotReadyEvent(b) ==
    /\ bots[b].init \in {"pending", "resolved"}
    /\ bots[b].destroy # "done"
    /\ ~bots[b].isReady
    /\ bots' = [bots EXCEPT ![b].isReady = TRUE]
    /\ UNCHANGED <<bot, serverSessions, clients, graceTimers, manual, asideBotServer>>

\* client.on('disconnected') of bot b
BotDisconnectedEvent(b) ==
    /\ bots[b].isReady
    /\ bots[b].destroy # "done"
    /\ bots' = [bots EXCEPT ![b].isReady = FALSE]
    /\ UNCHANGED <<bot, serverSessions, clients, graceTimers, manual, asideBotServer>>

\* destroy() of bot b comes to its end: isReady = false, isInitialized = false
BotDestroyCompleted(b) ==
    /\ bots[b].destroy = "called"
    /\ bots' = [bots EXCEPT ![b].destroy = "done", ![b].isReady = FALSE,
                            ![b].isInitialized = FALSE]
    /\ UNCHANGED <<bot, serverSessions, clients, graceTimers, manual, asideBotServer>>

\* socket.on('stop-session')
BotStopSession(k) ==
    /\ clients[k].connected = "yes"
    /\ IF bot # 0
         THEN /\ bots' = destroyCalled(bots, bot)
              /\ bot' = 0
         ELSE UNCHANGED <<bot, bots>>
    /\ serverSessions' = IF has(serverSessions, k) THEN mapDelete(serverSessions, k)
                         ELSE serverSessions
    /\ UNCHANGED <<clients, graceTimers, manual, asideBotServer>>

\* socket.on('disconnect'): the entry goes, and with no entry left and a bot
\* present a 30 second timer is set
BotSocketDisconnect(k) ==
    /\ clients[k].connected = "yes"
    /\ clients' = [clients EXCEPT ![k].connected = "gone"]
    /\ serverSessions' = IF has(serverSessions, k) THEN mapDelete(serverSessions, k)
                         ELSE serverSessions
    /\ graceTimers' = IF DOMAIN serverSessions' = {} /\ bot # 0
                        THEN graceTimers + 1 ELSE graceTimers
    /\ UNCHANGED <<bot, bots, manual, asideBotServer>>

\* a timer of the disconnect handler fires
GraceTimeout ==
    /\ graceTimers > 0
    /\ graceTimers' = graceTimers - 1
    /\ IF DOMAIN serverSessions = {} /\ bot # 0
         THEN /\ bots' = destroyCalled(bots, bot)
              /\ bot' = 0
         ELSE UNCHANGED <<bot, bots>>
    /\ UNCHANGED <<serverSessions, clients, manual, asideBotServer>>

\* POST /api/send-message ("api") and socket.on('send-message') ("socket"):
\* connected records whether the bot was present and ready when the request
\* came, sendMessage whether bot.sendMessage was called
ManualSend(path, ok) ==
    /\ path = "socket" => \E k \in Sockets : clients[k].connected = "yes"
    /\ LET connected == bot # 0 /\ bots[bot].isReady
           r == [path |-> path, connected |-> connected,
                 sendMessage |-> FALSE, reply |-> "none"]
       IN  manual' =
             IF bot = 0
                THEN [r EXCEPT !.reply = "Bot is not connected to WhatsApp"]
             ELSE IF callIsReady(bot).threw
                THEN [r EXCEPT !.reply = callIsReady(bot).value]
             ELSE IF ~callIsReady(bot).value
                THEN [r EXCEPT !.reply = "Bot is not connected to WhatsApp"]
             ELSE IF ~bots[bot].isReady
                THEN [r EXCEPT !.sendMessage = TRUE, !.reply = "Bot is not ready"]
             ELSE [r EXCEPT !.sendMessage = TRUE,
                            !.reply = IF ok THEN "success" ELSE "send failed"]
    /\ UNCHANGED <<bot, bots, serverSessions, clients, graceTimers, asideBotServer>>

(***************************************************************************)
(* Initial values.                                                         *)
(***************************************************************************)
\* both servers as their constructors leave them
InitServer == InitMultiServer /\ InitBotServer

\* WhatsAppManager: constructed, initialize() called (listeners attached)
InitManager ==
    /\ status = "initializing"
    /\ isReady = FALSE
    /\ client = "live"
    /\ messageStats = [received |-> 0, sent |-> 0, errors |-> 0]
    /\ chatHistory = EmptyMap
    /\ pipe = [p \in Pipes |-> IdlePipe]
    /\ qrPending = 0
    /\ link = "starting"
    /\ destroyPc = [at |-> "idle", calls |-> 0, returned |-> 0, threw |-> 0]
    /\ api = "idle"

InitGemini ==
    /\ cache = [k \in Keys |-> NoEntry]
    /\ modelCalls = 0
    /\ call = [k \in Calls |-> IdleCall]

InitBot ==
    /\ botIsReady = FALSE
    /\ isInitialized = FALSE
    /\ botClient = "live"
    /\ botDestroy = [at |-> "idle", calls |-> 0, completed |-> 0]
    /\ messageCount = 0
    /\ botChatHistory = EmptyMap
    /\ rateLimiter = EmptyMap
    /\ botPipe = [p \in BotPipes |-> IdleBotPipe]

InitRegistry ==
    /\ activeSessions = EmptyMap
    /\ sessionFile = EmptyMap
    /\ regOps = 0
    /\ sweep = IdleSweep
    /\ outcome = [written |-> TRUE, ended |-> "none"]

Init ==
    /\ now = 0
    /\ InitManager
    /\ InitGemini
    /\ InitBot
    /\ InitRegistry
    /\ appended = [mgr |-> <<>>, bot |-> <<>>, loaded |-> <<>>]
    /\ GEMINI_API_KEY = TRUE
    /\ InitServer
    /\ parked = NewInstance("B")
    /\ context = NoContext

\* the histories setupDirectories can load from chat_history.json: none, or
\* one that saveChatHistory wrote, which holds at most maxHistoryLength
\* entries per contact
LoadedHistories ==
    {<<>>,
     [k \in 1..maxHistoryLength |->
        [type |-> "received", message |-> k - maxHistoryLength,
         timestamp |-> 0, who |-> "Ravi"]]}

InitHistory ==
    /\ now = 0
    /\ GEMINI_API_KEY = TRUE
    /\ InitServer
    /\ parked = NewInstance("B")
    /\ context = NoContext
    /\ InitManager
    /\ InitGemini
    /\ InitRegistry
    /\ botIsReady = FALSE
    /\ isInitialized = FALSE
    /\ botClient = "live"
    /\ botDestroy = [at |-> "idle", calls |-> 0, completed |-> 0]
    /\ messageCount = 0
    /\ rateLimiter = EmptyMap
    /\ botPipe = [p \in BotPipes |-> IdleBotPipe]
    /\ \E history \in LoadedHistories :
            /\ botChatHistory = IF history = <<>> THEN EmptyMap
                                ELSE mapSet(EmptyMap, "c1", history)
            /\ appended = [mgr |-> <<>>, bot |-> <<>>, loaded |-> history]

(***************************************************************************)
(* One session of the multi-session server, its connection life cycle:     *)
(* the transport's events, the asynchronous qr handler, destroy() and the  *)
(* API's sendMessage.                                                      *)
(***************************************************************************)
NextSession ==
    \/ Qr
    \/ QrDone
    \/ QrFail
    \/ Authenticated
    \/ AuthFailure
    \/ Ready
    \/ Disconnected
    \/ DestroyBegin
    \/ DestroyEnd
    \/ DestroyFail
    \/ ApiSend
    \/ \E ok \in BOOLEAN : ApiSendSettled(ok)

SpecSession == Init /\ [][NextSession]_vars

(***************************************************************************)
(* One session of the multi-session server, its inbound pipeline: the      *)
(* invocations of handleIncomingMessage with the GeminiAI of the session,  *)
(* under the events that change what the pipeline reads (isReady, client). *)
(***************************************************************************)
NextPipeline ==
    \/ \E from \in Senders, fromMe \in BOOLEAN, body \in MgrTexts :
            MessageEvent(from, fromMe, body)
    \/ \E p \in Pipes, name \in {"Ravi"} \cup Contacts : ContactResolved(p, name)
    \/ \E p \in Pipes : ContactRejected(p)
    \/ \E p \in Pipes, g \in GenTexts : ModelResolved(p, g)
    \/ \E p \in Pipes : ModelRejected(p)
    \/ \E p \in Pipes : TypingDone(p)
    \/ \E p \in Pipes : SendOk(p)
    \/ \E p \in Pipes : SendFail(p)
    \/ \E p \in Pipes : FallbackSendOk(p)
    \/ \E p \in Pipes : FallbackSendFail(p)
    \/ Authenticated
    \/ Ready
    \/ Disconnected
    \/ DestroyBegin
    \/ DestroyEnd
    \/ DestroyFail

SpecPipeline == Init /\ [][NextPipeline]_vars

(***************************************************************************)
(* The single bot: its inbound pipeline behind the rate limiter.           *)
(***************************************************************************)
NextBot ==
    \/ \E from \in BotSenders, fromMe \in BOOLEAN, body \in MgrTexts :
            BotMessageEvent(from, fromMe, body)
    \/ \E p \in BotPipes, name \in {"Ravi"} \cup Contacts :
            BotContactResolved(p, name)
    \/ \E p \in BotPipes : BotContactRejected(p)
    \/ \E p \in BotPipes : BotPresenceDone(p)
    \/ \E p \in BotPipes : BotPresenceFailed(p)
    \/ \E p \in BotPipes, t \in BotGenTexts : BotModelResolved(p, t)
    \/ \E p \in BotPipes : BotModelRejected(p)
    \/ \E p \in BotPipes : BotSleepDone(p)
    \/ \E p \in BotPipes : BotClearDone(p)
    \/ \E p \in BotPipes : BotClearFailed(p)
    \/ \E p \in BotPipes : BotReplyOk(p)
    \/ \E p \in BotPipes : BotReplyFail(p)
    \/ \E p \in BotPipes : BotFallbackOk(p)
    \/ \E p \in BotPipes : BotFallbackFail(p)
    \/ \E d \in {windowMs \div 2, windowMs} : BotTick(d)

SpecBot == Init /\ [][NextBot]_vars

(***************************************************************************)
(* The single bot with a contact who writes at a conversational pace and a *)
(* transport that accepts every presence update and every reply.           *)
(***************************************************************************)
NextBotPaced ==
    \/ \E from \in BotSenders, fromMe \in BOOLEAN, body \in MgrTexts :
            BotMessagePaced(from, fromMe, body)
    \/ \E p \in BotPipes, name \in {"Ravi"} \cup Contacts :
            BotContactResolved(p, name)
    \/ \E p \in BotPipes : BotContactRejected(p)
    \/ \E p \in BotPipes : BotPresenceDone(p)
    \/ \E p \in BotPipes, t \in BotGenTexts : BotModelResolved(p, t)
    \/ \E p \in BotPipes : BotModelRejected(p)
    \/ \E p \in BotPipes : BotSleepDone(p)
    \/ \E p \in BotPipes : BotClearDone(p)
    \/ \E p \in BotPipes : BotReplyOk(p)
    \/ \E d \in {windowMs \div 2, windowMs} : BotTick(d)

SpecBotPaced == Init /\ [][NextBotPaced]_vars

(***************************************************************************)
(* The registry: any caller, any order of calls.                           *)
(***************************************************************************)
RegIds == DOMAIN activeSessions \cup {UnknownId}

NextRegistry ==
    \/ \E r \in RandomBytes, w \in BOOLEAN : generateSessionId(r, w)
    \/ \E id \in RegIds, w \in BOOLEAN : createSession(id, w)
    \/ \E id \in RegIds, st \in CallerStatuses, w \in BOOLEAN :
            updateSessionStatus(id, st, w)
    \/ \E id \in RegIds, w \in BOOLEAN : incrementMessageCount(id, w)
    \/ \E id \in RegIds, w \in BOOLEAN : removeSession(id, w)
    \/ \E w \in BOOLEAN : cleanupOldSessions(w)
    \/ \E w \in BOOLEAN : RmdirSettled(w)
    \/ \E readable \in BOOLEAN : loadActiveSessions(readable)
    \/ \E d \in {maxAgeHours * 30 * 60 * 1000, maxAgeHours * 60 * 60 * 1000 + 1} :
            RegTick(d)

SpecRegistry == Init /\ [][NextRegistry]_vars

(***************************************************************************)
(* The history stores under more appends than they keep.                   *)
(***************************************************************************)
NextHistory ==
    \/ \E isBot \in BOOLEAN : HistUpdateChatHistory(isBot)
    \/ HistAddToHistory

SpecHistory == InitHistory /\ [][NextHistory]_vars

(***************************************************************************)
(* The history stores read for a conversation context: a contact whose     *)
(* messages and replies alternate, and a contact who never wrote.          *)
(***************************************************************************)
NextContext ==
    \/ \E isBot \in {Len(appended.mgr) % 2 = 1} : HistUpdateChatHistory(isBot)
    \/ HistAddToHistory
    \/ \E contactId \in Contacts : GetConversationContext(contactId)
    \/ \E contactId \in Contacts : BuildConversationContext(contactId)

SpecContext == InitHistory /\ [][NextContext]_vars

(***************************************************************************)
(* The reply cache under direct calls of generateResponse.                 *)
(***************************************************************************)
NextGemini ==
    \/ \E userMessage \in CallerTexts, contactName \in CallerNames :
            GenerateResponse(userMessage, contactName, <<>>)
    \/ \E k \in Calls, t \in GenTexts : GenerateContentResolved(k, t)
    \/ \E k \in Calls : GenerateContentRejected(k)
    \/ \E d \in {stdTTL * 500, stdTTL * 1000 + 1} : TtlElapses(d)

SpecGemini == Init /\ [][NextGemini]_vars

(***************************************************************************)
(* The reply cache under callers that differ in the contact name and in    *)
(* the chat history they pass, with a model that answers every request.    *)
(***************************************************************************)
NextShared ==
    \/ \E userMessage \in CallerTexts, c \in Callers :
            GenerateResponse(userMessage, c.contactName, c.chatHistory)
    \/ \E k \in Calls, t \in GenTexts : GenerateContentResolved(k, t)
    \/ \E d \in {stdTTL * 500, stdTTL * 1000 + 1} : TtlElapses(d)

SpecShared == Init /\ [][NextShared]_vars

(***************************************************************************)
(* The multi-session server and its clients.                               *)
(***************************************************************************)
NextServer ==
    \/ \E k \in Sockets : Connection(k)
    \/ \E k \in Sockets, randomBytes \in RandomBytes, written \in BOOLEAN :
            SocketStartSession(k, randomBytes, written)
    \/ \E randomBytes \in RandomBytes, written \in BOOLEAN :
            CreateSession(randomBytes, written)
    \/ \E m \in Managers : InitializeResolved(m)
    \/ \E m \in Managers : InitializeRejected(m)
    \/ \E m \in Managers : ManagerEmits(m)
    \/ \E k \in Sockets : StopSession(k)
    \/ \E k \in Sockets : StopSessionDestroyed(k)
    \/ \E k \in Sockets : StopSessionFailed(k)
    \/ \E randomBytes \in RandomBytes : DeleteSession(sessionIdOf(now, randomBytes))
    \/ DeleteSessionDestroyed
    \/ DeleteSessionFailed

SpecServer == Init /\ [][NextServer]_vars

(***************************************************************************)
(* The single-bot server and its clients.                                  *)
(***************************************************************************)
NextBotServer ==
    \/ \E k \in Sockets : BotConnection(k)
    \/ \E k \in Sockets : BotStartSession(k)
    \/ \E k \in Sockets : BotInitializeResolved(k)
    \/ \E k \in Sockets : BotInitializeRejected(k)
    \/ \E b \in BotIds : BotReadyEvent(b)
    \/ \E b \in BotIds : BotDisconnectedEvent(b)
    \/ \E b \in BotIds : BotDestroyCompleted(b)
    \/ \E k \in Sockets : BotStopSession(k)
    \/ \E k \in Sockets : BotSocketDisconnect(k)
    \/ GraceTimeout
    \/ \E path \in {"api", "socket"}, ok \in BOOLEAN : ManualSend(path, ok)

SpecBotServer == Init /\ [][NextBotServer]_vars

(***************************************************************************)
(* GeminiAI whose model rejects every request: each generateResponse call  *)
(* ends in getFallbackResponse(userMessage).                               *)
(***************************************************************************)
NextFallback ==
    \/ \E userMessage \in FallbackTexts : GenerateResponse(userMessage, "Friend", <<>>)
    \/ \E k \in Calls : GenerateContentRejected(k)

SpecFallback == Init /\ [][NextFallback]_vars

(***************************************************************************)
(* GeminiAI asked about texts of either register: each generateResponse    *)
(* call detects the language of its text before it asks the model.         *)
(***************************************************************************)
NextLanguage ==
    \/ \E userMessage \in LanguageTexts : GenerateResponse(userMessage, "Friend", <<>>)
    \/ \E k \in Calls : GenerateContentRejected(k)

SpecLanguage == Init /\ [][NextLanguage]_vars

(***************************************************************************)
(* destroy() of a session and of the single bot, called more than once.    *)
(***************************************************************************)
NextDestroy ==
    \/ NextSession
    \/ BotInitialized
    \/ BotReady
    \/ BotDestroyBegin
    \/ BotDestroySaved
    \/ BotDestroyEnd
    \/ BotDestroyFail

SpecDestroy == Init /\ [][NextDestroy]_vars

(***************************************************************************)
(* One deployment, which runs either the multi-session server with a       *)
(* session or the single-bot server with its bot.  The contacts write at a *)
(* conversational pace and the transport accepts every reply; among the    *)
(* events are the transport's status broadcasts and the echoes of the      *)
(* account's own messages.                                                 *)
(***************************************************************************)
\* the single-bot server is not the one that runs
noBot ==
    /\ ~isInitialized /\ ~botIsReady /\ botDestroy.calls = 0
    /\ \A p \in BotPipes : botPipe[p].pc = "idle"

\* the multi-session server is not the one that runs
noSession ==
    /\ link = "starting" /\ destroyPc.calls = 0
    /\ \A p \in Pipes : pipe[p].pc = "idle"

NextPacedSession ==
    \/ Authenticated
    \/ Ready
    \/ \E from \in Senders, fromMe \in BOOLEAN, body \in MgrTexts :
            MessagePaced(from, fromMe, body)
    \/ \E p \in Pipes, name \in {"Ravi"} \cup Contacts : ContactResolved(p, name)
    \/ \E p \in Pipes, g \in GenTexts : ModelResolved(p, g)
    \/ \E p \in Pipes : ModelRejected(p)
    \/ \E p \in Pipes : TypingDone(p)
    \/ \E p \in Pipes : SendOk(p)

(***************************************************************************)
(* One session that answers its contacts' messages one at a time while a   *)
(* caller sends texts and media through it and destroys it.                *)
(***************************************************************************)
NextSend ==
    \/ Authenticated
    \/ Ready
    \/ \E from \in Contacts, body \in MgrTexts : MessagePaced(from, FALSE, body)
    \/ \E p \in Pipes, name \in {"Ravi"} \cup Contacts : ContactResolved(p, name)
    \/ \E p \in Pipes : ModelResolved(p, "ok")
    \/ \E p \in Pipes : TypingDone(p)
    \/ \E p \in Pipes : SendOk(p)
    \/ Disconnected
    \/ DestroyBegin
    \/ DestroyEnd
    \/ DestroyFail
    \/ ApiSend
    \/ ApiSendMedia
    \/ \E ok \in BOOLEAN : ApiSendSettled(ok)

SpecSend == Init /\ [][NextSend]_vars

NextPacedBot ==
    \/ \E from \in BotSenders, fromMe \in BOOLEAN, body \in MgrTexts :
            BotMessagePaced(from, fromMe, body)
    \/ \E p \in BotPipes, name \in {"Ravi"} \cup Contacts :
            BotContactResolved(p, name)
    \/ \E p \in BotPipes : BotPresenceDone(p)
    \/ \E p \in BotPipes, t \in BotGenTexts : BotModelResolved(p, t)
    \/ \E p \in BotPipes : BotModelRejected(p)
    \/ \E p \in BotPipes : BotSleepDone(p)
    \/ \E p \in BotPipes : BotClearDone(p)
    \/ \E p \in BotPipes : BotReplyOk(p)

NextPaced ==
    \/ noBot /\ NextPacedSession
    \/ noSession /\ NextPacedBot

SpecPaced == Init /\ [][NextPaced]_vars

(***************************************************************************)
(* One deployment as above, whose transport may also reject any call: the  *)
(* contact lookup, the typing indicator, the reply and the fallback reply. *)
(***************************************************************************)
NextRepliesSession ==
    \/ NextPacedSession
    \/ \E p \in Pipes : ContactRejected(p)
    \/ \E p \in Pipes : SendFail(p)
    \/ \E p \in Pipes : FallbackSendOk(p)
    \/ \E p \in Pipes : FallbackSendFail(p)

NextRepliesBot ==
    \/ NextPacedBot
    \/ \E p \in BotPipes : BotContactRejected(p)
    \/ \E p \in BotPipes : BotPresenceFailed(p)
    \/ \E p \in BotPipes : BotClearFailed(p)
    \/ \E p \in BotPipes : BotReplyFail(p)
    \/ \E p \in BotPipes : BotFallbackOk(p)
    \/ \E p \in BotPipes : BotFallbackFail(p)

NextReplies ==
    \/ noBot /\ NextRepliesSession
    \/ noSession /\ NextRepliesBot

SpecReplies == Init /\ [][NextReplies]_vars

(***************************************************************************)
(* The single bot with two contacts who write at a conversational pace,    *)
(* and the hourly sweep of the rate limiter, run at any moment.            *)
(***************************************************************************)
NextCleanup ==
    \/ \E from \in Contacts, body \in MgrTexts : BotMessagePaced(from, FALSE, body)
    \/ \E p \in BotPipes, name \in {"Ravi"} \cup Contacts :
            BotContactResolved(p, name)
    \/ \E p \in BotPipes : BotPresenceDone(p)
    \/ \E p \in BotPipes : BotModelResolved(p, "ok")
    \/ \E p \in BotPipes : BotSleepDone(p)
    \/ \E p \in BotPipes : BotClearDone(p)
    \/ \E p \in BotPipes : BotReplyOk(p)
    \/ \E d \in {windowMs \div 2, windowMs} : BotTick(d)
    \/ CleanupRateLimiter

SpecCleanup == Init /\ [][NextCleanup]_vars

(***************************************************************************)
(* One session of the multi-session server and its registry record: the    *)
(* record is made when the session is started, the session handles its     *)
(* messages one at a time, and a caller may remove the record and run the   *)
(* sweep at any moment.                                                     *)
(***************************************************************************)
\* the id generateSessionId returned for the session
mgrSessionId == sessionIdOf(0, "a1")

\* sessionManager.generateSessionId() of 'create-session' / 'start_session'
StartSession ==
    /\ regOps = 0
    /\ now = 0
    /\ \E w \in BOOLEAN : generateSessionId("a1", w)

NextSweep ==
    \/ StartSession
    \/ regOps > 0 /\ NextPacedSession
    \/ \E w \in BOOLEAN : removeSession(mgrSessionId, w)
    \/ \E w \in BOOLEAN : cleanupOldSessions(w)
    \/ \E w \in BOOLEAN : RmdirSettled(w)
    \/ \E d \in {maxAgeHours * 30 * 60 * 1000, maxAgeHours * 60 * 60 * 1000 + 1} :
            RegTick(d)

SpecSweep == Init /\ [][NextSweep]_vars

(***************************************************************************)
(* Two sessions side by side: each is paired, answers the messages of one   *)
(* contact one at a time and is destroyed once, in any interleaving with   *)
(* the other.                                                              *)
(***************************************************************************)
NextTwoSessions ==
    \/ Switch
    \/ Authenticated
    \/ Ready
    \/ \E body \in MgrTexts :
            NextSlot <= MaxMsgsEach /\ MessagePaced("c1", FALSE, body)
    \/ \E p \in Pipes : ContactResolved(p, "Ravi")
    \/ \E p \in Pipes : ModelResolved(p, "ok")
    \/ \E p \in Pipes : ModelRejected(p)
    \/ \E p \in Pipes : TypingDone(p)
    \/ \E p \in Pipes : SendOk(p)
    \/ destroyPc.calls = 0 /\ DestroyBegin
    \/ DestroyEnd

SpecTwoSessions == Init /\ [][NextTwoSessions]_vars

(***************************************************************************)
(* Either deployment, its messages handled one at a time, and destroy()    *)
(* called at any moment, with a transport that lets itself be destroyed.    *)
(***************************************************************************)
NextTeardown ==
    \/ NextPaced
    \/ noBot /\ DestroyBegin
    \/ noBot /\ DestroyEnd
    \/ noSession /\ BotDestroyBegin
    \/ noSession /\ BotDestroySaved
    \/ noSession /\ BotDestroyEnd

SpecTeardown == Init /\ [][NextTeardown]_vars

(***************************************************************************)
(* The shadow files.  Either the session registry is used, each call with  *)
(* a write that reaches sessions.json or fails, or the single bot gathers  *)
(* history and is destroyed, its history file written or not.              *)
(***************************************************************************)
\* the single bot was not touched
botUntouched ==
    /\ botDestroy.calls = 0 /\ ~isInitialized /\ ~botIsReady
    /\ appended.bot = <<>>

NextSave ==
    \/ botUntouched /\ \E r \in RandomBytes, w \in BOOLEAN : generateSessionId(r, w)
    \/ botUntouched /\ \E id \in RegIds, w \in BOOLEAN : createSession(id, w)
    \/ botUntouched /\ \E id \in RegIds, st \in CallerStatuses, w \in BOOLEAN :
            updateSessionStatus(id, st, w)
    \/ botUntouched /\ \E id \in RegIds, w \in BOOLEAN : removeSession(id, w)
    \/ regOps = 0 /\ HistAddToHistory
    \/ regOps = 0 /\ BotInitialized
    \/ regOps = 0 /\ BotReady
    \/ regOps = 0 /\ BotDestroyBegin
    \/ regOps = 0 /\ BotDestroySaved
    \/ regOps = 0 /\ BotDestroyEnd
    \/ regOps = 0 /\ BotDestroyFail

SpecSave == Init /\ [][NextSave]_vars

(***************************************************************************)
(* Either deployment started with or without GEMINI_API_KEY. Without it     *)
(* new GeminiAI() throws in the WhatsAppManager constructor, so the         *)
(* create-session handler never calls initialize() and no client exists;   *)
(* WhatsAppBot.setupAI catches its own error and the bot is constructed     *)
(* with this.model left null.                                              *)
(***************************************************************************)
InitCredential ==
    /\ now = 0
    /\ GEMINI_API_KEY \in BOOLEAN
    /\ InitServer
    /\ status = "initializing"
    /\ isReady = FALSE
    /\ client = IF GEMINI_API_KEY THEN "live" ELSE "null"
    /\ messageStats = [received |-> 0, sent |-> 0, errors |-> 0]
    /\ chatHistory = EmptyMap
    /\ pipe = [p \in Pipes |-> IdlePipe]
    /\ qrPending = 0
    /\ link = "starting"
    /\ destroyPc = [at |-> "idle", calls |-> 0, returned |-> 0, threw |-> 0]
    /\ api = "idle"
    /\ InitGemini
    /\ InitBot
    /\ InitRegistry
    /\ appended = [mgr |-> <<>>, bot |-> <<>>, loaded |-> <<>>]
    /\ parked = NewInstance("B")
    /\ context = NoContext

NextCredential ==
    \/ NextPaced
    \/ noSession /\ BotInitialized
    \/ noSession /\ BotReady

SpecCredential == InitCredential /\ [][NextCredential]_vars

(***************************************************************************)
(* The claims.                                                             *)
(***************************************************************************)

\* C1: messages of one contact are processed one after the other: while a
\* pipeline of a contact is between its first and its last step, no other
\* pipeline of the same contact has begun.
C1_PerContactSerial ==
    \A p, q \in Pipes :
        (p # q /\ InFlight(pipe[p]) /\ InFlight(pipe[q]))
            => pipe[p].from # pipe[q].from

\* C3: a message delivered to handleIncomingMessage while the session is not
\* ready is rejected without side effect: the step that takes it in leaves the
\* received counter, the history, the cache and the completion service alone.
C3_NotReadyRejected ==
    [][(~isReady /\ NextSlot' # NextSlot)
        => (/\ messageStats' = messageStats
            /\ chatHistory' = chatHistory
            /\ cache' = cache
            /\ modelCalls' = modelCalls)]_vars

\* C5: every change of the session's status is an edge of the specified graph.
StatusEdges ==
    {<<"initializing", "qr_generated">>, <<"initializing", "authenticated">>,
     <<"qr_generated", "authenticated">>, <<"authenticated", "ready">>,
     <<"initializing", "auth_failed">>, <<"qr_generated", "auth_failed">>,
     <<"authenticated", "auth_failed">>, <<"ready", "auth_failed">>,
     <<"ready", "disconnected">>, <<"ready", "destroyed">>,
     <<"auth_failed", "destroyed">>, <<"disconnected", "destroyed">>}

C5_StatusAlongGraph ==
    [][status' # status => <<status, status'>> \in StatusEdges]_vars

\* C7: a rejected delivery is not retried: for one inbound message the pipeline
\* calls client.sendMessage at most once.
C7_NoAutomaticRetry == \A p \in Pipes : pipe[p].attempts <= 1

\* C8: once destroy() has completed, the pipelines that were in flight change
\* neither the history, nor the statistics, nor the cache of the session.
C8_AbandonedAfterDestroy ==
    [][status = "destroyed"
        => (/\ messageStats' = messageStats
            /\ chatHistory' = chatHistory
            /\ cache' = cache)]_vars


\* the inbound messages of a contact that passed the rate limit gate at or
\* after time t and less than one window later
admittedInWindow(contactId, t) ==
    {j \in 1..Len(botChatHistory[contactId]) :
        /\ botChatHistory[contactId][j].type = "received"
        /\ botChatHistory[contactId][j].timestamp >= t
        /\ botChatHistory[contactId][j].timestamp - t < windowMs}

\* C2: of the messages one contact sends within one rate limit window, at
\* most maxMessagesPerMinute pass the gate and enter the pipeline.
C2_AtMostRAdmitted ==
    \A c \in DOMAIN botChatHistory :
        \A i \in 1..Len(botChatHistory[c]) :
            Cardinality(admittedInWindow(c, botChatHistory[c][i].timestamp))
                <= maxMessagesPerMinute

\* C6: a pipeline leaves the completion request either with a reply to send
\* or with a fallback reply to send: a failed or empty completion still ends
\* in a reply to the user.
C6_FallbackOnFailure ==
    [][\A p \in BotPipes :
        (botPipe[p].pc = "model" /\ botPipe'[p].pc # "model")
            => botPipe'[p].pc \in {"sleep", "fallbackReply"}]_vars


\* a step of one of the registry calls made for a session that exists
RegistryCall ==
    \/ \E id \in RegIds, w \in BOOLEAN : createSession(id, w)
    \/ \E id \in RegIds, st \in CallerStatuses, w \in BOOLEAN :
            updateSessionStatus(id, st, w)
    \/ \E id \in RegIds, w \in BOOLEAN : incrementMessageCount(id, w)

\* C4: createSession, updateSessionStatus and incrementMessageCount leave a
\* registry record whose status is 'destroyed' destroyed and inactive.
C4_DestroyedAbsorbing ==
    [][RegistryCall =>
        \A id \in DOMAIN activeSessions :
            activeSessions[id].status = "destroyed"
                => (activeSessions'[id].status = "destroyed"
                    /\ ~activeSessions'[id].isActive)]_vars


\* the last maxHistoryLength entries of a sequence, in order
mostRecent(entries) ==
    IF Len(entries) <= maxHistoryLength THEN entries
    ELSE SubSeq(entries, Len(entries) - maxHistoryLength + 1, Len(entries))

\* C9: a contact's history never holds more than maxHistoryLength entries,
\* and it holds the most recent ones of all that were appended, in the order
\* they were appended (in both stores).
C9_HistoryMostRecent ==
    /\ Len(getChatHistory(chatHistory, "c1")) <= maxHistoryLength
    /\ Len(getChatHistory(botChatHistory, "c1")) <= maxHistoryLength
    /\ getChatHistory(chatHistory, "c1") = mostRecent(appended.mgr)
    /\ getChatHistory(botChatHistory, "c1")
            = mostRecent(appended.loaded \o appended.bot)

\* C9 witness: both stores have taken more appends than they keep
C9_Witness ==
    /\ Len(appended.mgr) > maxHistoryLength
    /\ Len(appended.bot) > maxHistoryLength
    /\ Len(getChatHistory(chatHistory, "c1")) = maxHistoryLength
    /\ Len(getChatHistory(botChatHistory, "c1")) = maxHistoryLength


\* call k began within the cache TTL of the latest earlier call that got a
\* reply for the same text from the model and cached it
withinTtlOfPrior(k) ==
    /\ call[k].pc # "idle"
    /\ call[k].prior # 0
    /\ call[k].startedAt <= call[call[k].prior].writtenAt + stdTTL * 1000

C11_WindowBounded ==
    [][/\ \A p \in BotPipes :
            (botPipe[p].pc = "getContact" /\ messageCount' # messageCount
                    /\ botPipe'[p].pc # "getContact")
                => \A i \in 1..Len(rateLimiter'[botPipe[p].from]) :
                        /\ now - windowMs <= rateLimiter'[botPipe[p].from][i]
                        /\ rateLimiter'[botPipe[p].from][i] <= now
       /\ \A c \in DOMAIN rateLimiter' :
            Cardinality({i \in 1..Len(rateLimiter'[c]) :
                            now' - rateLimiter'[c][i] < windowMs})
                <= maxMessagesPerMinute]_vars


\* the handler of pipeline p takes its step through the rate limit gate
evaluates(p) ==
    /\ botPipe[p].pc = "getContact"
    /\ botPipe'[p].pc # "getContact"
    /\ messageCount' # messageCount

\* the contact's window holds maxMessagesPerMinute or more timestamps that are
\* less than windowMs old
windowFull(contactId) ==
    /\ contactId \in DOMAIN rateLimiter
    /\ Cardinality({i \in 1..Len(rateLimiter[contactId]) :
                        now - rateLimiter[contactId][i] < windowMs})
            >= maxMessagesPerMinute

\* C12: a message that meets a full window ends its handler at the gate: the
\* histories are as before, no timestamp joins the window, and the handler
\* is done without presence, completion request or send.
C12_RejectedLeavesNoTrace ==
    [][\A p \in BotPipes :
        (evaluates(p) /\ windowFull(botPipe[p].from)) =>
            /\ botPipe'[p].pc = "done"
            /\ botChatHistory' = botChatHistory
            /\ Len(rateLimiter'[botPipe[p].from])
                    <= Len(rateLimiter[botPipe[p].from])
            /\ \A i \in 1..Len(rateLimiter'[botPipe[p].from]) :
                    \E j \in 1..Len(rateLimiter[botPipe[p].from]) :
                        rateLimiter'[botPipe[p].from][i]
                            = rateLimiter[botPipe[p].from][j]
            /\ \A q \in BotPipes \ {p} : botPipe'[q] = botPipe[q]]_vars

\* the inbound entries stored for a contact
receivedEntries(contactId) ==
    IF contactId \in DOMAIN botChatHistory
        THEN {i \in 1..Len(botChatHistory[contactId]) :
                botChatHistory[contactId][i].type = "received"}
        ELSE {}

\* C12 witness: three messages of one contact went through the gate, two of
\* them were answered and recorded, the third left no entry
C12_Witness ==
    /\ messageCount = maxMessagesPerMinute + 1
    /\ \A p \in 1..(maxMessagesPerMinute + 1) : botPipe[p].pc = "done"
    /\ Len(rateLimiter["c1"]) = maxMessagesPerMinute
    /\ Cardinality(receivedEntries("c1")) = maxMessagesPerMinute


\* C13: a destroy() call made after an earlier one ran to its end returns
\* without an error and leaves the session not ready, 'destroyed', without
\* client and without history, its statistics as they were; for the single
\* bot it leaves both flags false, no client, and the stores as they were.
C13_DestroyAgain ==
    [][/\ (destroyPc.returned >= 1 /\ destroyPc'.calls > destroyPc.calls) =>
            /\ destroyPc'.returned = destroyPc.returned + 1
            /\ destroyPc'.threw = destroyPc.threw
            /\ ~isReady' /\ status' = "destroyed" /\ client' = "null"
            /\ chatHistory' = EmptyMap
            /\ messageStats' = messageStats
       /\ (botDestroy.completed >= 1 /\ botDestroy'.completed > botDestroy.completed) =>
            /\ ~botIsReady' /\ ~isInitialized' /\ botClient' = "null"
            /\ botChatHistory' = botChatHistory
            /\ rateLimiter' = rateLimiter
            /\ messageCount' = messageCount]_vars

\* C13 witness: the session and the bot have each been destroyed twice, the
\* session after it was ready
C13_Witness ==
    /\ destroyPc.returned = 2
    /\ botDestroy.completed = 2
    /\ link = "up"


\* C14: a 'message' event whose sender is the status broadcast address or
\* whose fromMe flag is set ends its handler at once: no counter, history,
\* rate limiter window or cache entry changes, no completion is requested and
\* no other handler is affected.
C14_NonEvents ==
    [][/\ \A p \in Pipes :
            (pipe[p].pc = "idle" /\ pipe'[p].pc # "idle"
                    /\ (pipe'[p].fromMe \/ pipe'[p].from = "status@broadcast"))
                => /\ pipe'[p].pc = "ignored"
                   /\ messageStats' = messageStats
                   /\ chatHistory' = chatHistory
                   /\ cache' = cache
                   /\ modelCalls' = modelCalls
                   /\ \A q \in Pipes \ {p} : pipe'[q] = pipe[q]
       /\ \A p \in BotPipes :
            (botPipe[p].pc = "idle" /\ botPipe'[p].pc # "idle"
                    /\ (botPipe'[p].fromMe \/ botPipe'[p].from = "status@broadcast"))
                => /\ botPipe'[p].pc = "ignored"
                   /\ messageCount' = messageCount
                   /\ botChatHistory' = botChatHistory
                   /\ rateLimiter' = rateLimiter
                   /\ \A q \in BotPipes \ {p} : botPipe'[q] = botPipe[q]]_vars

\* C14 witness: a session that has answered a contact then gets an echo of
\* its own reply and ignores it
C14_Witness ==
    /\ pipe[1].pc = "done" /\ pipe[1].sent = "reply"
    /\ pipe[2].pc = "ignored" /\ pipe[2].fromMe /\ pipe[2].from # "status@broadcast"
    /\ messageStats.received = 1
    /\ Len(chatHistory[pipe[1].from]) = 2


\* the records a step takes out of the registry
removed == DOMAIN activeSessions \ DOMAIN activeSessions'

\* every record a step removes was inactive and older than the sweep's cutoff
sweepOnlyOldInactive ==
    \A id \in removed :
        /\ ~activeSessions[id].isActive
        /\ activeSessions[id].lastActivity
                < sweep'.startedAt - maxAgeHours * 60 * 60 * 1000

\* C15: the sweep removes a record only if it is inactive and its
\* lastActivity is older than the cutoff, and never removes the record of a
\* session that is active or has a message pipeline in flight.
C15_SweepSparesBusy ==
    [][/\ sweepOnlyOldInactive
       /\ \A id \in removed :
            ~(id = mgrSessionId /\ \E p \in Pipes : InFlight(pipe[p]))]_vars


\* C16: after loadActiveSessions in a restarted process every record has the
\* status it was last saved with, and no record is in status ready (nor
\* counted as ready by getSessionStats), since no transport connection exists
\* yet in the new process.
C16_ReloadNotReady ==
    [][(\E readable \in BOOLEAN : loadActiveSessions(readable))
            => \A id \in DOMAIN activeSessions' :
                    /\ activeSessions'[id].status = sessionFile[id].status
                    /\ activeSessions'[id].status # "ready"]_vars


\* C17: when the AI credential is missing no transport client is initialized
\* for the session, it never becomes ready and it processes no message.
C17_NoCredentialNoSession ==
    ~GEMINI_API_KEY =>
        /\ client # "live" /\ ~isReady /\ link = "starting"
        /\ \A p \in Pipes : pipe[p].pc = "idle"
        /\ ~isInitialized /\ ~botIsReady
        /\ \A p \in BotPipes : botPipe[p].pc \in {"idle", "ignored"}
        /\ messageCount = 0

\* the part of C17 that holds: a WhatsAppManager session is never set up
managerNeedsCredential ==
    ~GEMINI_API_KEY =>
        /\ client # "live" /\ ~isReady /\ link = "starting" /\ status = "initializing"
        /\ \A p \in Pipes : pipe[p].pc = "idle"


\* C18: after destroy() has completed, the session's chat history, its
\* rate-limiter windows and its response cache hold no entries.
C18_DestroyedTogether ==
    /\ (destroyPc.returned > 0 /\ destroyPc.at = "idle")
            => /\ chatHistory = EmptyMap
               /\ cache = [k \in Keys |-> NoEntry]
    /\ (botDestroy.completed > 0 /\ botDestroy.at = "idle")
            => /\ botChatHistory = EmptyMap
               /\ rateLimiter = EmptyMap


\* what C19 names of a session
observed(s) ==
    [chatHistory |-> instanceOf(s).chatHistory, cache |-> instanceOf(s).cache,
     messageStats |-> instanceOf(s).messageStats,
     isReady |-> instanceOf(s).isReady, status |-> instanceOf(s).status]

\* C19: a step of one session (an inbound message being processed, destroy())
\* leaves the other session's chat history, response cache, message
\* statistics, readiness and status as they were.
C19_SessionsIndependent ==
    [][\A s \in SessionIds : s # current => observed(s)' = observed(s)]_vars

\* C19 witness: one session has answered a message and been destroyed while
\* the other, ready, holds the history and the cached reply of its own message
C19_Witness ==
    /\ status = "destroyed" /\ messageStats.received = 1
    /\ parked.isReady /\ parked.status = "ready"
    /\ parked.messageStats.received = 1
    /\ parked.chatHistory # EmptyMap
    /\ \E k \in Keys : parked.cache[k] # NoEntry


\* the last min(contextLength, n) of n entries, in their order
lastEntries(stored) ==
    LET n == Len(stored)
        m == IF n < contextLength THEN n ELSE contextLength
    IN  [i \in 1..m |-> stored[n - m + i]]

\* C20: getConversationContext and buildConversationContext give the last
\* min(6, n) of the contact's n stored entries in stored order (the second as
\* one line of text per entry), leave the stored history as it was, and for a
\* contact without history give an empty result and make no entry for it.
C20_RecentContext ==
    [][\A contactId \in Contacts :
        /\ (context'.by = "getConversationContext"
                /\ GetConversationContext(contactId)) =>
            /\ context'.value
                    = lastEntries(getChatHistory(botChatHistory, contactId))
            /\ botChatHistory' = botChatHistory
            /\ ~has(botChatHistory, contactId) => context'.value = <<>>
        /\ (context'.by = "buildConversationContext"
                /\ BuildConversationContext(contactId)) =>
            /\ Len(context'.value)
                    = Len(lastEntries(getChatHistory(chatHistory, contactId)))
            /\ \A i \in 1..Len(context'.value) :
                LET entry == lastEntries(getChatHistory(chatHistory, contactId))[i]
                IN  context'.value[i]
                        = [sender |-> IF entry.isBot THEN "You" ELSE "Friend",
                           message |-> entry.message]
            /\ chatHistory' = chatHistory
            /\ ~has(chatHistory, contactId) => context'.value = <<>>]_vars

\* C20 witness: the bot's store holds maxHistoryLength entries of a contact
\* and the context returned for that contact is its last contextLength ones
C20_Witness ==
    /\ context.by = "getConversationContext" /\ context.contactId = "c1"
    /\ Len(getChatHistory(botChatHistory, "c1")) = maxHistoryLength
    /\ Len(context.value) = contextLength
    /\ context.value[contextLength]
            = getChatHistory(botChatHistory, "c1")[maxHistoryLength]
    /\ ~has(botChatHistory, "c2")


\* when call k began the cache held no live entry for its text: none was
\* ever set, or the latest was set more than stdTTL seconds before
noLiveEntry(k) ==
    \/ call[k].prior = 0
    \/ call[k].startedAt > call[call[k].prior].writtenAt + stdTTL * 1000

\* C21: a generateResponse call that finds no live cache entry for its key
\* invokes the model, an expired entry is never returned, and every call
\* that has returned has returned a reply.
C21_MissInvokesModel ==
    \A k \in Calls :
        call[k].pc # "idle" =>
            /\ noLiveEntry(k) => call[k].invoked
            /\ ~call[k].invoked =>
                    /\ ~noLiveEntry(k)
                    /\ call[k].result
                        \in addPersonalTouch(call[call[k].prior].result, call[k].name)
            /\ call[k].pc = "done" => call[k].result # NoVal

\* C21 witness: a call made after the cached reply for its text had expired
\* has asked the model again
C21_Witness ==
    \E k \in Calls :
        /\ call[k].prior # 0
        /\ call[call[k].prior].result = "ok"
        /\ call[k].startedAt > call[call[k].prior].writtenAt + stdTTL * 1000
        /\ call[k].invoked
        /\ call[k].pc = "done"


categoryKeywords ==
    [greeting |-> {"hello", "hi", "hey", "namaste"},
     question |-> {"?", "how", "what", "kya", "kaise"},
     thanks |-> {"thanks", "thank", "shukriya", "dhanyawad"}]

carries(text, category) ==
    \E keyword \in categoryKeywords[category] :
        includes(toLowerCase(text), keyword)

\* the first category that matches, in the order greeting, question, thanks
firstCategory(text) ==
    IF carries(text, "greeting") THEN "greeting"
    ELSE IF carries(text, "question") THEN "question"
    ELSE IF carries(text, "thanks") THEN "thanks"
    ELSE "default"

\* the calls that ended in getFallbackResponse
fellBack(k) == call[k].pc = "done" /\ call[k].invoked /\ call[k].wrote = 0

\* C23: getFallbackResponse returns a reply of the pool of the first category
\* that matches the text, in the order greeting, question, thanks, default;
\* a text with a thanks keyword and no greeting or question keyword gets a
\* thanks reply, a text with no keyword a default reply.
C23_FallbackByCategory ==
    \A k \in Calls :
        fellBack(k) =>
            /\ call[k].result \in fallbackResponses(firstCategory(call[k].text))
            /\ call[k].text \in {"thanks a lot", "THANK you"}
                    => call[k].result \in fallbackResponses("thanks")
            /\ call[k].text \in {"random statement", ""}
                    => call[k].result \in fallbackResponses("default")
            /\ call[k].text = "hello there"
                    => call[k].result \in fallbackResponses("greeting")

\* C23 witness: a thanks text got a thanks reply, and a text with a question
\* keyword and a thanks keyword got a question reply
C23_Witness ==
    /\ fellBack(1) /\ call[1].text = "THANK you"
    /\ call[1].result = "Koi baat nahi bro!"
    /\ fellBack(2) /\ call[2].text = "what thanks"
    /\ call[2].result \in fallbackResponses("question")


\* how many words of a vocabulary occur in a lowercased text
matches(lower, vocabulary) ==
    Cardinality({w \in vocabulary : includes(lower, w)})

\* C24: detectLanguage gives hinglish when more informal words than formal
\* words match or an informal marker occurs as a word, else english when a
\* formal word matches, else hinglish; equal texts get equal answers.
C24_DetectLanguage ==
    \A k \in Calls :
        call[k].invoked =>
            /\ LET lower == toLowerCase(call[k].text)
                   informal == matches(lower, hindiWords)
                   formal == matches(lower, englishWords)
               IN  call[k].detectedLanguage =
                    IF informal > formal
                       \/ \E w \in hinglishPatterns : testWord(lower, w)
                        THEN "hinglish"
                    ELSE IF formal >= 1 THEN "english"
                    ELSE "hinglish"
            /\ call[k].text = "kaise ho yaar" => call[k].detectedLanguage = "hinglish"
            /\ call[k].text = "How are you today" => call[k].detectedLanguage = "english"
            /\ call[k].text = "hello" => call[k].detectedLanguage = "hinglish"
            /\ \A j \in Calls :
                (call[j].invoked /\ call[j].text = call[k].text)
                    => call[j].detectedLanguage = call[k].detectedLanguage

\* C24 witness: one call found english, another found hinglish by a marker
\* alone
C24_Witness ==
    /\ call[1].text = "How are you today" /\ call[1].detectedLanguage = "english"
    /\ call[2].text = "what man" /\ call[2].detectedLanguage = "hinglish"


\* 31 * h + c modulo 2^32 as a signed 32-bit integer, computed on the two
\* 16-bit halves of h
times31plus(h, c) ==
    LET lo == (31 * (h % 65536)) + c
        hi == ((31 * ((h \div 65536) % 65536)) + (lo \div 65536)) % 65536
    IN  IF hi >= 32768 THEN ((hi - 65536) * 65536) + (lo % 65536)
        ELSE (hi * 65536) + (lo % 65536)

\* the fold h := 31 * h + charCode over the first n characters, from 0
RECURSIVE fold31(_, _)
fold31(text, n) ==
    IF n = 0 THEN 0
    ELSE LET h == fold31(text, n - 1)
         IN  IF h = h THEN times31plus(h, charCodeAt(SubSeq(text, n, n))) ELSE 0

\* C25: the cache key of a text is the fold h := 31 * h + charCode wrapped to
\* a signed 32-bit integer, starting at 0; it lies between -2^31 and 2^31 - 1
\* and equal texts get equal keys.
C25_HashIsFold31 ==
    \A k \in Calls :
        call[k].text # NoVal =>
            /\ call[k].cacheKey = fold31(call[k].text, Len(call[k].text))
            /\ call[k].cacheKey >= (-Two31m1) - 1
            /\ call[k].cacheKey <= Two31m1
            /\ \A j \in Calls :
                call[j].text = call[k].text => call[j].cacheKey = call[k].cacheKey

\* C25 witness: a text long enough for the hash to wrap got its negative
\* key, and a second call hashed a short text
C25_Witness ==
    /\ call[1].text = "I like cake"
    /\ call[1].cacheKey = -249233910
    /\ call[2].text = "hello"
    /\ call[2].cacheKey = 99162322


\* the registry after a call changed the record of a known id
restamped(sessionId, sessionInfo) ==
    IF has(activeSessions, sessionId)
        THEN [activeSessions EXCEPT ![sessionId] = sessionInfo]
        ELSE activeSessions

\* C26: a write of sessions.json or of the history file that fails is not
\* thrown to the caller: generateSessionId, createSession, updateSessionStatus
\* and removeSession leave the registry as a successful write would, and
\* destroy() of the bot goes on past saveChatHistory with the history as it
\* was.
C26_FailedWriteIsSilent ==
    [][ /\ (regOps' # regOps /\ ~outcome'.written)
            => outcome'.ended # "threw write error"
        /\ \A r \in RandomBytes :
            generateSessionId(r, FALSE) =>
                /\ outcome'.ended = "returned"
                /\ activeSessions' =
                    mapSet(activeSessions, sessionIdOf(now, r),
                           [status |-> "created", messageCount |-> 0,
                            isActive |-> TRUE, createdAt |-> now,
                            lastActivity |-> now])
        /\ \A id \in RegIds :
            /\ createSession(id, FALSE) =>
                /\ outcome'.ended = "returned" <=> has(activeSessions, id)
                /\ activeSessions' =
                    restamped(id, [activeSessions[id] EXCEPT
                                        !.status = "initializing",
                                        !.lastActivity = now])
            /\ \A st \in CallerStatuses :
                updateSessionStatus(id, st, FALSE) =>
                    /\ outcome'.ended = "returned"
                    /\ activeSessions' =
                        restamped(id, [activeSessions[id] EXCEPT
                                            !.status = st, !.lastActivity = now])
            /\ removeSession(id, FALSE) =>
                /\ outcome'.ended = "returned"
                /\ activeSessions' =
                    restamped(id, [activeSessions[id] EXCEPT
                                        !.status = "destroyed",
                                        !.isActive = FALSE,
                                        !.lastActivity = now])
        /\ (botDestroy.at = "saving" /\ botDestroy' # botDestroy) =>
            /\ botChatHistory' = botChatHistory
            /\ \/ botDestroy'.at = "awaiting"
               \/ botDestroy'.completed = botDestroy.completed + 1 ]_vars

\* C26 witness: the write of removeSession failed, the call returned, the
\* registry holds the destroyed record and the file an older one
C26_Witness ==
    /\ outcome = [written |-> FALSE, ended |-> "returned"]
    /\ \E id \in DOMAIN activeSessions :
        /\ activeSessions[id].status = "destroyed"
        /\ has(sessionFile, id)
        /\ sessionFile[id].status = "initializing"


\* C27: the handler of one inbound message calls generateContent at most once
\* and has at most one reply accepted by the transport, the AI reply or the
\* fallback reply, in a session and in the single bot.
C27_OneRequestOneReply ==
    /\ \A p \in Pipes :
        /\ pipe[p].requests <= 1
        /\ pipe[p].delivered <= 1
        /\ pipe[p].delivered = 1 <=> pipe[p].sent \in {"reply", "fallbackMessage"}
    /\ \A p \in BotPipes :
        /\ botPipe[p].requests <= 1
        /\ botPipe[p].delivered <= 1

\* C27 witness: the transport rejected the AI reply of a message and took the
\* fallback reply, after one call of generateContent
C27_Witness ==
    \E p \in Pipes :
        /\ pipe[p].pc = "done"
        /\ pipe[p].requests = 1
        /\ pipe[p].attempts = 2
        /\ pipe[p].sent = "fallbackMessage"
        /\ pipe[p].delivered = 1


\* the entries of a session's history of a contact, inbound or outbound
mgrEntries(contactId, isBot) ==
    LET history == getChatHistory(chatHistory, contactId)
    IN  Cardinality({i \in 1..Len(history) : history[i].isBot = isBot})

\* the entries of the bot's history of a contact, received or sent
botEntries(contactId, type) ==
    LET history == getChatHistory(botChatHistory, contactId)
    IN  Cardinality({i \in 1..Len(history) : history[i].type = type})

\* the handler got the contact and went on to the reply
processed(r) == r.pc = "model" \/ r.kind # "none"

\* the histories hold one inbound entry per processed message, there from the
\* moment the model is asked, and one outbound entry per reply the transport
\* accepted and the code records
entriesMatchMessages ==
    /\ \A c \in Contacts :
        /\ mgrEntries(c, FALSE) =
            Cardinality({p \in Pipes : pipe[p].from = c /\ processed(pipe[p])})
        /\ mgrEntries(c, TRUE) =
            Cardinality({p \in Pipes : pipe[p].from = c /\ pipe[p].sent = "reply"})
    /\ \A c \in BotContacts :
        /\ botEntries(c, "sent") =
            Cardinality({p \in BotPipes : botPipe[p].delivered = 1})
        /\ botEntries(c, "received") >=
            Cardinality({p \in BotPipes :
                            botPipe[p].pc \in {"presence", "model", "sleep", "clear",
                                               "reply", "fallbackReply"}})

\* a step of the bot appends an inbound entry exactly when a handler passes
\* the rate limit gate, which is before its model call
inboundAtTheGate ==
    \A c \in BotContacts :
        LET passing == {p \in BotPipes :
                            /\ botPipe[p].pc = "getContact"
                            /\ botPipe'[p].pc \notin {"getContact", "done"}}
        IN  /\ botEntries(c, "received")' =
                botEntries(c, "received") + Cardinality(passing)
            /\ \A p \in passing : botPipe'[p].requests = 0

\* C28: a processed message adds exactly one inbound entry to the contact's
\* history, before the model is asked, and at most one outbound entry, only
\* once the transport accepted the reply; a rejected send adds none.
C28_HistoryPerMessage ==
    []entriesMatchMessages /\ [][inboundAtTheGate]_vars

\* C28 witness: two messages of one contact were processed, the reply to one
\* was accepted and the reply to the other rejected; the history holds two
\* inbound entries and one outbound entry
C28_Witness ==
    /\ \E p, q \in Pipes :
        /\ pipe[p].from = "c1" /\ pipe[p].sent = "reply"
        /\ pipe[q].from = "c1" /\ pipe[q].kind = "ai"
        /\ pipe[q].attempts = 2 /\ pipe[q].pc = "done"
    /\ mgrEntries("c1", FALSE) = 2
    /\ mgrEntries("c1", TRUE) = 1


\* the stored requests of a contact that are newer than t - 60 s
unexpired(rl, c, t) ==
    {i \in 1..Len(rl[c]) : rl[c][i] > t - windowMs}

\* C29: cleanupRateLimiter deletes exactly the contacts with no request newer
\* than now - 60 s, leaves every other contact its unexpired requests in
\* their order, and a checkRateLimit at that moment or later answers for
\* every contact as it would have without the sweep.
C29_CleanupKeepsAnswers ==
    [][ CleanupRateLimiter =>
        /\ DOMAIN rateLimiter' =
            {c \in DOMAIN rateLimiter : unexpired(rateLimiter, c, now) # {}}
        /\ \A c \in DOMAIN rateLimiter' :
            /\ Len(rateLimiter'[c]) = Cardinality(unexpired(rateLimiter, c, now))
            /\ \A i \in 1..Len(rateLimiter'[c]) :
                /\ rateLimiter'[c][i] > now - windowMs
                /\ \E j \in unexpired(rateLimiter, c, now) :
                    /\ rateLimiter[c][j] = rateLimiter'[c][i]
                    /\ Cardinality({k \in unexpired(rateLimiter, c, now) : k <= j}) = i
        /\ \A c \in Contacts, d \in {0, windowMs \div 2, windowMs} :
            /\ checkRateLimit(rateLimiter', c, now + d)
                = checkRateLimit(rateLimiter, c, now + d)
            /\ rateLimiterAfterCheck(rateLimiter', c, now + d)[c]
                = rateLimiterAfterCheck(rateLimiter, c, now + d)[c] ]_vars

\* C29 witness: two replies went out half a window apart and the sweep, a
\* whole window after the first, left the contact the newer request only
C29_Witness ==
    /\ now = windowMs
    /\ DOMAIN rateLimiter = {"c1"}
    /\ rateLimiter["c1"] = <<windowMs \div 2>>
    /\ \E p, q \in BotPipes :
        /\ p # q
        /\ botPipe[p].delivered = 1
        /\ botPipe[q].delivered = 1


\* C30: in a session isReady is true exactly when status is 'ready', whatever
\* the order of the transport events, the end of the QR encoding and
\* destroy().
C30_ReadyIffStatusReady == isReady <=> status = "ready"


\* the bot's handler has set the typing indicator of the chat and not yet
\* cleared it: from the resolved sendStateTyping up to the resolved clearState
typingSet(r) == r.pc \in {"model", "sleep", "clear"}

\* C31: a handler that set the typing indicator clears it before it returns,
\* whatever the outcome: no handler returns with the indicator still set.
C31_TypingCleared ==
    [][ \A p \in BotPipes :
            (typingSet(botPipe[p]) /\ ~typingSet(botPipe'[p]))
                => botPipe'[p].pc \in {"reply", "fallbackReply"} ]_vars


\* C32: the delay calculateTypingDelay returns lies between responseDelayMin
\* and responseDelayMax, also for a reply so short that its length times
\* 30 ms is below responseDelayMin.
C32_DelayWithinBounds ==
    \A p \in BotPipes :
        botPipe[p].pc = "sleep" =>
            /\ botPipe[p].typingDelay >= responseDelayMin
            /\ botPipe[p].typingDelay <= responseDelayMax


\* the caller of call k differs from the caller of the earlier call in the
\* contact name or in the chat history it passes
otherCaller(k) ==
    \/ call[k].name # call[call[k].prior].name
    \/ call[k].chatHistory # call[call[k].prior].chatHistory

fallbackEnded(j) ==
    call[j].pc = "done" /\ call[j].invoked /\ call[j].wrote = 0

\* the cache holds a live reply of the model for the text
liveModelReply(userMessage) ==
    /\ latestWriter(userMessage) # 0
    /\ now <= call[latestWriter(userMessage)].writtenAt + stdTTL * 1000

\* C34: every entry of the response cache holds the reply a call got from a
\* successful model request for that key, and a call that follows a call
\* with the same text that ended in a fallback reply invokes the model,
\* unless a reply of the model for that text is live in the cache.
C34_OnlyModelRepliesCached ==
    /\ [](\A key \in Keys :
            cache[key] # NoEntry =>
                \E k \in Calls :
                    /\ call[k].wrote > 0
                    /\ call[k].cacheKey = key
                    /\ cache[key].v = call[k].result)
    /\ [][\A k \in Calls :
            (/\ call[k].pc = "idle"
             /\ call'[k].pc # "idle"
             /\ \E j \in Calls :
                    fallbackEnded(j) /\ call[j].text = call'[k].text
             /\ ~liveModelReply(call'[k].text))
                => call'[k].invoked]_vars

\* C34 witness: a call has returned a fallback reply, the cache holds no
\* entry for its text, and a later call with the same text in the same hour
\* has invoked the model
C34_Witness ==
    \E j, k \in Calls :
        /\ j < k
        /\ fallbackEnded(j)
        /\ call[k].text = call[j].text
        /\ call[k].startedAt > call[j].startedAt
        /\ call[k].startedAt < call[j].startedAt + stdTTL * 1000
        /\ call[k].prior = 0
        /\ call[k].invoked
        /\ call[k].pc = "done"
        /\ call[k].wrote > 0
        /\ cache[call[k].cacheKey].v = call[k].result


\* C35: a socket has received the events of a session (the emitToSocket
\* calls of its manager) once each if it is the socket that started the
\* session, and none of them otherwise.
C35_EventsToOwnerOnce ==
    \A k \in Sockets, m \in Managers :
        sockets[k].got[m] =
            IF managers[m].socket = k THEN managers[m].emitted ELSE 0


\* whatsappInstances holds manager m under its session id
inInstances(m) ==
    /\ has(whatsappInstances, managers[m].sessionId)
    /\ whatsappInstances[managers[m].sessionId] = m

\* C36: once initialize() of a session has settled and no destroy() of it
\* is under way, whatsappInstances holds the session exactly if its
\* initialize() succeeded and destroy() was not called on it; a session
\* whose initialize() or destroy() threw is not in the map.
C36_InstancesAreLiveSessions ==
    \A m \in Managers :
        (managers[m].init \in {"resolved", "threw"}
                /\ managers[m].destroy # "pending") =>
            (inInstances(m) <=>
                (managers[m].init = "resolved" /\ managers[m].destroy = "none"))


\* C37: a start-session that finds the server's bot with a failed
\* initialize() makes a new bot and begins its initialize().
C37_NewBotAfterFailedInit ==
    [][\A k \in Sockets :
        (bot # 0 /\ bots[bot].init = "threw" /\ BotStartSession(k))
            => (bot' # bot /\ bot' # 0 /\ bots'[bot'].init = "pending")]_vars


\* C38: every entry of activeSessions refers to the server's current bot,
\* and destroy() has not been called on that bot.
C38_EntriesReferToLiveBot ==
    \A k \in DOMAIN serverSessions :
        /\ bot # 0
        /\ serverSessions[k] = bot
        /\ bots[bot].destroy = "none"


\* C39: a manual send that finds the bot present and ready calls
\* bot.sendMessage and reports success unless the transport fails, and
\* 'Bot is not connected to WhatsApp' is reported only when the bot is absent
\* or not ready.
C39_ManualSendWhenConnected ==
    manual.path # "none" =>
        /\ manual.connected =>
                (manual.sendMessage /\ manual.reply \in {"success", "send failed"})
        /\ manual.reply = "Bot is not connected to WhatsApp" => ~manual.connected


\* C40: a sendMessage or sendMediaMessage call made while the session is
\* not ready throws 'WhatsApp client not ready', does not call the transport
\* client, and leaves the chat history and the statistics as they were.
C40_NotReadySendThrows ==
    [][((ApiSend \/ ApiSendMedia) /\ ~isReady) =>
            /\ api' = "threw WhatsApp client not ready"
            /\ chatHistory' = chatHistory
            /\ messageStats' = messageStats]_vars

\* C40 witness: a session that has received a message was destroyed, and a
\* send through it has thrown 'WhatsApp client not ready'
C40_Witness ==
    /\ api = "threw WhatsApp client not ready"
    /\ ~isReady
    /\ client = "null"
    /\ messageStats.received > 0
    /\ chatHistory # EmptyMap
====
